---- MODULE Spec2Model ----
(***************************************************************************)
(* Model of the SVG/EMF to PPTX conversion route (api/convert), of the     *)
(* SVG sanitizer it calls (utils/svgSanitizer) and of the layout fitter.   *)
(*                                                                         *)
(* Numbers are JavaScript numbers restricted to the values the bounded     *)
(* inputs produce: exact rationals plus NaN and the two infinities (the    *)
(* rounding of IEEE doubles and the negative zero are not represented).    *)
(* Strings are sequences of one-character strings, so that parsing,        *)
(* formatting, searching and replacing are computed, not assumed.          *)
(***************************************************************************)
EXTENDS Integers, Sequences, FiniteSets, TLC

(***************************************************************************)
(* Bounds of the model.                                                    *)
(***************************************************************************)
\* explicit width/height attribute values range over the numerals 0..MaxDim
\* (and over the sample values of SampleDims)
MaxDim == 3

\* simplifyIds inputs: at most MaxDefs identified elements and MaxRefs
\* referencing elements under the root
MaxDefs == 2

MaxRefs == 1

(***************************************************************************)
(* JavaScript numbers.                                                     *)
(***************************************************************************)
RECURSIVE GCD(_, _)
GCD(a, b) == IF b = 0 THEN a ELSE GCD(b, a % b)

Abs(n) == IF n < 0 THEN -n ELSE n

NaN == [k |-> "nan", n |-> 0, d |-> 1]

Infinity(sign) == [k |-> "inf", n |-> sign, d |-> 1]

\* the rational n/d (d # 0), in lowest terms with a positive denominator
Fin(n, d) ==
    LET g == GCD(Abs(n), Abs(d))
        s == IF d < 0 THEN -1 ELSE 1
    IN  [k |-> "fin", n |-> s * (n \div g), d |-> s * (d \div g)]

Num(n) == [k |-> "fin", n |-> n, d |-> 1]

isNaN(a) == a.k = "nan"

IsFinite(a) == a.k = "fin"

Sign(a) == IF a.n > 0 THEN 1 ELSE IF a.n < 0 THEN -1 ELSE 0

FNeg(a) == IF a.k = "nan" THEN NaN ELSE [a EXCEPT !.n = -a.n]

FAdd(a, b) ==
    IF isNaN(a) \/ isNaN(b) THEN NaN
    ELSE IF a.k = "inf" /\ b.k = "inf" THEN (IF a.n = b.n THEN a ELSE NaN)
    ELSE IF a.k = "inf" THEN a
    ELSE IF b.k = "inf" THEN b
    ELSE LET g == GCD(a.d, b.d)
         IN  Fin(a.n * (b.d \div g) + b.n * (a.d \div g), (a.d \div g) * b.d)

FSub(a, b) == FAdd(a, FNeg(b))

FMul(a, b) ==
    IF isNaN(a) \/ isNaN(b) THEN NaN
    ELSE IF a.k = "inf" \/ b.k = "inf"
         THEN (IF Sign(a) = 0 \/ Sign(b) = 0 THEN NaN ELSE Infinity(Sign(a) * Sign(b)))
    ELSE LET g1 == GCD(Abs(a.n), b.d)
             g2 == GCD(Abs(b.n), a.d)
         IN  Fin((a.n \div g1) * (b.n \div g2), (a.d \div g2) * (b.d \div g1))

FDiv(a, b) ==
    IF isNaN(a) \/ isNaN(b) THEN NaN
    ELSE IF a.k = "inf" /\ b.k = "inf" THEN NaN
    ELSE IF a.k = "inf" THEN Infinity(IF Sign(b) < 0 THEN -a.n ELSE a.n)
    ELSE IF b.k = "inf" THEN Num(0)
    ELSE IF b.n = 0 THEN (IF a.n = 0 THEN NaN ELSE Infinity(Sign(a)))
    ELSE FMul(a, Fin(b.d, b.n))

\* a < b; false as soon as one side is NaN
FLt(a, b) ==
    IF isNaN(a) \/ isNaN(b) THEN FALSE
    ELSE IF a.k = "inf" THEN a.n < 0 /\ ~(b.k = "inf" /\ b.n < 0)
    ELSE IF b.k = "inf" THEN b.n > 0
    ELSE LET g == GCD(a.d, b.d)
         IN  a.n * (b.d \div g) < b.n * (a.d \div g)

FGt(a, b) == FLt(b, a)

FLe(a, b) == ~isNaN(a) /\ ~isNaN(b) /\ ~FLt(b, a)

FGe(a, b) == FLe(b, a)

\* Math.max and Math.min: NaN as soon as one argument is NaN
MathMax(a, b) == IF isNaN(a) \/ isNaN(b) THEN NaN ELSE IF FLt(a, b) THEN b ELSE a

MathMin(a, b) == IF isNaN(a) \/ isNaN(b) THEN NaN ELSE IF FLt(b, a) THEN b ELSE a

FAbs(a) == IF a.k = "nan" THEN NaN ELSE [a EXCEPT !.n = Abs(a.n)]

(***************************************************************************)
(* Strings as sequences of characters.                                     *)
(***************************************************************************)
DigitVal ==
    ("0" :> 0) @@ ("1" :> 1) @@ ("2" :> 2) @@ ("3" :> 3) @@ ("4" :> 4) @@
    ("5" :> 5) @@ ("6" :> 6) @@ ("7" :> 7) @@ ("8" :> 8) @@ ("9" :> 9)

DigitChar == <<"0", "1", "2", "3", "4", "5", "6", "7", "8", "9">>

IsDigit(c) == c \in DOMAIN DigitVal

\* \s of the regular expressions, over the characters the inputs use
IsSpace(c) == c = " "

RECURSIVE Pow10(_)
Pow10(k) == IF k = 0 THEN 1 ELSE 10 * Pow10(k - 1)

\* the end (exclusive) of the run of digits of s that starts at i
RECURSIVE DigitRunEnd(_, _)
DigitRunEnd(s, i) ==
    IF i <= Len(s) /\ IsDigit(s[i]) THEN DigitRunEnd(s, i + 1) ELSE i

\* the value of the digits s[i..j-1]
RECURSIVE DigitsValue(_, _, _)
DigitsValue(s, i, j) ==
    IF j <= i THEN 0 ELSE 10 * DigitsValue(s, i, j - 1) + DigitVal[s[j - 1]]

RECURSIVE SkipSpaces(_, _)
SkipSpaces(s, i) ==
    IF i <= Len(s) /\ IsSpace(s[i]) THEN SkipSpaces(s, i + 1) ELSE i

\* parseFloat: the longest prefix [ws] [sign] digits [. digits] | . digits, NaN
\* when there is none (no exponent: the inputs carry no "e")
parseFloat(s) ==
    LET i0    == SkipSpaces(s, 1)
        neg   == i0 <= Len(s) /\ s[i0] = "-"
        i1    == IF i0 <= Len(s) /\ s[i0] \in {"-", "+"} THEN i0 + 1 ELSE i0
        i2    == DigitRunEnd(s, i1)
        dot   == i2 <= Len(s) /\ s[i2] = "."
        i3    == IF dot THEN DigitRunEnd(s, i2 + 1) ELSE i2
        nfrac == IF dot THEN i3 - (i2 + 1) ELSE 0
        ip    == DigitsValue(s, i1, i2)
        fp    == IF dot THEN DigitsValue(s, i2 + 1, i3) ELSE 0
        mag   == Fin(ip * Pow10(nfrac) + fp, Pow10(nfrac))
    IN  IF i2 = i1 /\ nfrac = 0 THEN NaN
        ELSE IF neg THEN FNeg(mag) ELSE mag

\* the decimal digits of a natural number
RECURSIVE NatToStr(_)
NatToStr(n) ==
    IF n < 10 THEN <<DigitChar[n + 1]>>
    ELSE NatToStr(n \div 10) \o <<DigitChar[(n % 10) + 1]>>

\* the k digits of n < 10^k, zero-padded on the left
RECURSIVE PadDigits(_, _)
PadDigits(n, k) ==
    IF k = 0 THEN <<>> ELSE PadDigits(n \div 10, k - 1) \o <<DigitChar[(n % 10) + 1]>>

\* the least k with d dividing 10^k (d has no prime factor but 2 and 5)
RECURSIVE DecimalPlaces(_, _)
DecimalPlaces(d, k) == IF Pow10(k) % d = 0 THEN k ELSE DecimalPlaces(d, k + 1)

\* Number.prototype.toString / template-literal formatting of the numbers
\* parseFloat returns on the model's inputs (terminating decimals)
NumToStr(a) ==
    IF a.k = "nan" THEN <<"N", "a", "N">>
    ELSE IF a.k = "inf"
         THEN (IF a.n < 0 THEN <<"-">> ELSE <<>>) \o <<"I", "n", "f", "i", "n", "i", "t", "y">>
    ELSE LET k    == DecimalPlaces(a.d, 0)
             m    == (Abs(a.n) * Pow10(k)) \div a.d
             sgn  == IF a.n < 0 THEN <<"-">> ELSE <<>>
             frac == IF k = 0 THEN <<>> ELSE <<".">> \o PadDigits(m % Pow10(k), k)
         IN  sgn \o NatToStr(m \div Pow10(k)) \o frac

\* s.replace(/[^\d.]/g, '')
StripNonNumeric(s) == SelectSeq(s, LAMBDA c : IsDigit(c) \/ c = ".")

\* s.split(/[\s,]+/): the pieces between maximal runs of separators (a leading
\* or trailing run leaves an empty piece)
IsSep(c) == IsSpace(c) \/ c = ","

RECURSIVE SplitFrom(_, _, _)
SplitFrom(s, i, cur) ==
    IF i > Len(s) THEN <<cur>>
    ELSE IF IsSep(s[i])
         THEN (IF i > 1 /\ IsSep(s[i - 1])
               THEN SplitFrom(s, i + 1, cur)
               ELSE <<cur>> \o SplitFrom(s, i + 1, <<>>))
    ELSE SplitFrom(s, i + 1, Append(cur, s[i]))

SplitWsComma(s) == SplitFrom(s, 1, <<>>)

\* whether t occurs in s at position i
OccursAt(s, t, i) ==
    /\ i >= 1
    /\ i + Len(t) - 1 <= Len(s)
    /\ \A j \in 1..Len(t) : s[i + j - 1] = t[j]

\* String.prototype.indexOf, 1-based; 0 when t does not occur in s
IndexOf(s, t) ==
    IF \E i \in 1..(Len(s) + 1) : OccursAt(s, t, i)
    THEN CHOOSE i \in 1..(Len(s) + 1) :
             OccursAt(s, t, i) /\ \A j \in 1..(i - 1) : ~OccursAt(s, t, j)
    ELSE 0

\* s.includes(t)
Includes(s, t) == IndexOf(s, t) # 0

\* s.replace(t, r) with a string pattern: the first occurrence only
ReplaceFirst(s, t, r) ==
    LET i == IndexOf(s, t)
    IN  IF i = 0 THEN s
        ELSE SubSeq(s, 1, i - 1) \o r \o SubSeq(s, i + Len(t), Len(s))

RECURSIVE Join(_, _)
Join(parts, sep) ==
    IF parts = <<>> THEN <<>>
    ELSE IF Len(parts) = 1 THEN parts[1]
    ELSE parts[1] \o sep \o Join(Tail(parts), sep)

(***************************************************************************)
(* Markup.  A markup text is the sequence of its elements in document      *)
(* order, each with its nesting depth and its attributes in textual order  *)
(* (q: the quote character of the attribute, "dq" or "sq"); form tells     *)
(* whether the text is well-formed XML ("wellformed"), markup cut off      *)
(* after the start tags listed ("truncated") or no markup at all ("text"). *)
(* A style element carries its rules, css, as <<selector, declarations>>   *)
(* pairs, each declaration a <<property, value>> pair.                     *)
(***************************************************************************)
Attr(name, value, q) == [name |-> name, value |-> value, q |-> q]

Element(tag, depth, attrs) ==
    [tag |-> tag, depth |-> depth, attrs |-> attrs, text |-> "", css |-> <<>>]

\* an element with character data: a message, or the rules of a style element
TextElement(tag, depth, attrs, text) ==
    [tag |-> tag, depth |-> depth, attrs |-> attrs, text |-> text, css |-> <<>>]

StyleElement(depth, css) ==
    [tag |-> "style", depth |-> depth, attrs |-> <<>>, text |-> "", css |-> css]

Markup(form, els) == [form |-> form, els |-> els]

\* the attribute occurrences of a text, in textual order
RECURSIVE AttrOccurrences(_)
AttrOccurrences(els) ==
    IF els = <<>> THEN <<>> ELSE els[1].attrs \o AttrOccurrences(Tail(els))

\* the attribute names that end in the given word: the regular expressions
\* /width="([^"]*)"/ ... are not anchored at the start of the name
NamesEndingIn(word) ==
    CASE word = "width"  -> {"width", "stroke-width"}
      [] word = "height" -> {"height", "line-height"}
      [] OTHER           -> {word}

\* text.match(/<word>="([^"]*)"/) || text.match(/<word>='([^']*)'/): the first
\* double-quoted occurrence, else the first single-quoted one; <<>> for null,
\* else <<value>>
MatchAttr(text, word) ==
    LET occs   == AttrOccurrences(text.els)
        hit(q) == {i \in 1..Len(occs) : occs[i].name \in NamesEndingIn(word) /\ occs[i].q = q}
        first(q) == CHOOSE i \in hit(q) : \A j \in hit(q) : i <= j
    IN  IF hit("dq") # {} THEN <<occs[first("dq")].value>>
        ELSE IF hit("sq") # {} THEN <<occs[first("sq")].value>>
        ELSE <<>>

(***************************************************************************)
(* Layout fitter.                                                          *)
(***************************************************************************)
Layout(w, h, m, cw, ch) ==
    [width |-> w, height |-> h, margin |-> m, contentWidth |-> cw, contentHeight |-> ch]

SLIDE_LAYOUTS ==
    [widescreen |-> Layout(Num(10), Fin(5625, 1000), Fin(5, 10), Num(9), Fin(4625, 1000)),
     standard   |-> Layout(Num(10), Fin(75, 10), Fin(5, 10), Num(9), Fin(65, 10))]

LayoutNames == {"widescreen", "standard"}

DefaultWidth == 576

DefaultHeight == 432

\* the intrinsic size <<originalWidth, originalHeight>> read from the text
ExtractOriginalSize(svgContent) ==
    LET widthMatch   == MatchAttr(svgContent, "width")
        heightMatch  == MatchAttr(svgContent, "height")
        viewBoxMatch == MatchAttr(svgContent, "viewBox")
        default      == <<Num(DefaultWidth), Num(DefaultHeight)>>
    IN  IF widthMatch # <<>> /\ heightMatch # <<>>
        THEN LET w == parseFloat(StripNonNumeric(widthMatch[1]))
                 h == parseFloat(StripNonNumeric(heightMatch[1]))
             IN  IF ~isNaN(w) /\ ~isNaN(h) THEN <<w, h>> ELSE default
        ELSE IF viewBoxMatch # <<>>
        THEN LET parts   == SplitWsComma(viewBoxMatch[1])
                 viewBox == [i \in 1..Len(parts) |-> parseFloat(parts[i])]
             IN  IF Len(viewBox) >= 4 THEN <<viewBox[3], viewBox[4]>> ELSE default
        ELSE default

\* aspectRatio > slideAspectRatio
IsWidthBoundFlipped(aspectRatio, layout) ==
    FLt(aspectRatio, FDiv(layout.contentWidth, layout.contentHeight))

IsWidthBound(aspectRatio, layout) ==
    FGt(aspectRatio, FDiv(layout.contentWidth, layout.contentHeight))

MinVisibleMargin == Fin(2, 10)

MaxSizeInset == Fin(4, 10)

\* the final clamps of the returned rectangle
ClampRectLoose(x, y, finalWidth, finalHeight, layout) ==
    [x |-> MathMax(MinVisibleMargin, x),
     y |-> MathMax(MinVisibleMargin, y),
     w |-> MathMin(finalWidth, FSub(layout.contentWidth, layout.margin)),
     h |-> MathMin(finalHeight, FSub(layout.contentHeight, layout.margin))]

ClampRect(x, y, finalWidth, finalHeight, layout) ==
    [x |-> MathMax(MinVisibleMargin, x),
     y |-> MathMax(MinVisibleMargin, y),
     w |-> MathMin(finalWidth, FSub(layout.width, MaxSizeInset)),
     h |-> MathMin(finalHeight, FSub(layout.height, MaxSizeInset))]

\* the width-bound branch: finalWidth = contentWidth, flush left, centred vertically
WidthBoundRect(finalHeight, layout) ==
    [x |-> layout.margin,
     y |-> FAdd(layout.margin, FDiv(FSub(layout.contentHeight, finalHeight), Num(2))),
     w |-> layout.contentWidth,
     h |-> finalHeight]

\* the height-bound branch: finalHeight = contentHeight, flush top, centred horizontally
HeightBoundRect(finalWidth, layout) ==
    [x |-> FAdd(layout.margin, FDiv(FSub(layout.contentWidth, finalWidth), Num(2))),
     y |-> layout.margin,
     w |-> finalWidth,
     h |-> layout.contentHeight]

FitRect(aspectRatio, layout) ==
    IF IsWidthBound(aspectRatio, layout)
    THEN WidthBoundRect(FDiv(layout.contentWidth, aspectRatio), layout)
    ELSE HeightBoundRect(FMul(layout.contentHeight, aspectRatio), layout)

\* the returned object
ImageSize(r, size, aspectRatio) ==
    [x |-> r.x, y |-> r.y, w |-> r.w, h |-> r.h,
     originalWidth |-> size[1], originalHeight |-> size[2],
     aspectRatio |-> aspectRatio]

ClampedFit(f, layout) == ClampRect(f.x, f.y, f.w, f.h, layout)

FitSize(size, aspectRatio, layout) ==
    ImageSize(ClampedFit(FitRect(aspectRatio, layout), layout), size, aspectRatio)

FitOriginalSize(size, layout) == FitSize(size, FDiv(size[1], size[2]), layout)

calculateOptimalImageSize(svgContent, layout) ==
    FitOriginalSize(ExtractOriginalSize(svgContent), layout)

(***************************************************************************)
(* DOM.  A parsed document is the sequence of its elements in document     *)
(* order; els[1] is the root (depth 0) and querySelectorAll on the root    *)
(* ranges over the descendants, 2..Len(els).  getAttribute gives <<>> for  *)
(* null and <<v>> for the value v.                                         *)
(***************************************************************************)
AttrIndex(e, name) ==
    LET at == {i \in 1..Len(e.attrs) : e.attrs[i].name = name}
    IN  IF at = {} THEN 0 ELSE CHOOSE i \in at : \A j \in at : i <= j

hasAttribute(e, name) == AttrIndex(e, name) # 0

getAttribute(e, name) ==
    IF hasAttribute(e, name) THEN <<e.attrs[AttrIndex(e, name)].value>> ELSE <<>>

setAttribute(e, name, value) ==
    IF hasAttribute(e, name)
    THEN [e EXCEPT !.attrs[AttrIndex(e, name)].value = value]
    ELSE [e EXCEPT !.attrs = Append(e.attrs, Attr(name, value, "dq"))]

removeAttribute(e, name) ==
    [e EXCEPT !.attrs = SelectSeq(e.attrs, LAMBDA a : a.name # name)]

\* the indices of the descendants of the root: what root.querySelectorAll sees
Descendants(els) == 2..Len(els)

\* the end (exclusive) of the subtree of els[i]
RECURSIVE SubtreeEnd(_, _, _)
SubtreeEnd(els, i, j) ==
    IF j <= Len(els) /\ els[j].depth > els[i].depth THEN SubtreeEnd(els, i, j + 1) ELSE j

\* whether els[j] is els[i] or lies in its subtree
InSubtree(els, i, j) == i <= j /\ j < SubtreeEnd(els, i, i + 1)

\* the elements that are not in the subtree of an element of the set gone
RECURSIVE KeepFrom(_, _, _)
KeepFrom(els, gone, j) ==
    IF j > Len(els) THEN <<>>
    ELSE IF \E i \in gone : InSubtree(els, i, j)
         THEN KeepFrom(els, gone, j + 1)
         ELSE <<els[j]>> \o KeepFrom(els, gone, j + 1)

RemoveSubtrees(els, gone) == KeepFrom(els, gone, 1)

(***************************************************************************)
(* SVGSanitizer.simplifyIds                                                *)
(***************************************************************************)
LowerLetters ==
    {"a", "b", "c", "d", "e", "f", "g", "h", "i", "j", "k", "l", "m",
     "n", "o", "p", "q", "r", "s", "t", "u", "v", "w", "x", "y", "z"}

UpperLetters ==
    {"A", "B", "C", "D", "E", "F", "G", "H", "I", "J", "K", "L", "M",
     "N", "O", "P", "Q", "R", "S", "T", "U", "V", "W", "X", "Y", "Z"}

\* [A-Za-z0-9+/]
IsBase64Char(c) == c \in LowerLetters \/ c \in UpperLetters \/ IsDigit(c) \/ c \in {"+", "/"}

RECURSIVE Base64RunEnd(_, _)
Base64RunEnd(s, i) ==
    IF i <= Len(s) /\ IsBase64Char(s[i]) THEN Base64RunEnd(s, i + 1) ELSE i

\* /^[A-Za-z0-9+/]+=*$/.test(id)
MatchesBase64(id) ==
    /\ Base64RunEnd(id, 1) > 1
    /\ \A j \in Base64RunEnd(id, 1)..Len(id) : id[j] = "="

ComplexIdLength == 10

isComplexId(id) == Len(id) > ComplexIdLength \/ MatchesBase64(id)

\* `id<<"+", "+", "t", "h", "i", "s", ".", "i", "d", "C", "o", "u", "n", "t", "e", "r">>`, for the counter before the increment
generateSimpleId(idCounter) == <<"i", "d">> \o NatToStr(idCounter + 1)

\* idMap[oldId] = newId on a map kept as the sequence of its entries in
\* insertion order: assigning an existing key keeps its place
KeyIndex(idMap, key) ==
    LET at == {i \in 1..Len(idMap) : idMap[i][1] = key}
    IN  IF at = {} THEN 0 ELSE CHOOSE i \in at : TRUE

MapPut(idMap, key, value) ==
    IF KeyIndex(idMap, key) # 0
    THEN [idMap EXCEPT ![KeyIndex(idMap, key)] = <<key, value>>]
    ELSE Append(idMap, <<key, value>>)

\* a canonical array index ("0", "7", "12", not "07"): such keys come first in
\* Object.entries, in ascending numeric order
IsIndexKey(key) ==
    /\ key # <<>>
    /\ \A i \in 1..Len(key) : IsDigit(key[i])
    /\ (Len(key) > 1 => key[1] # "0")
    /\ Len(key) <= 9

RECURSIVE InsertByKey(_, _)
InsertByKey(sorted, entry) ==
    IF sorted = <<>> THEN <<entry>>
    ELSE IF DigitsValue(entry[1], 1, Len(entry[1]) + 1)
              < DigitsValue(sorted[1][1], 1, Len(sorted[1][1]) + 1)
         THEN <<entry>> \o sorted
         ELSE <<sorted[1]>> \o InsertByKey(Tail(sorted), entry)

RECURSIVE SortByKey(_)
SortByKey(entries) ==
    IF entries = <<>> THEN <<>>
    ELSE InsertByKey(SortByKey(Tail(entries)), entries[1])

\* Object.entries(idMap)
ObjectEntries(idMap) ==
    SortByKey(SelectSeq(idMap, LAMBDA en : IsIndexKey(en[1])))
        \o SelectSeq(idMap, LAMBDA en : ~IsIndexKey(en[1]))

\* the first loop: every descendant with a complex id gets the next simple id
RenamedElement(e, idCounter) == setAttribute(e, "id", generateSimpleId(idCounter))

NeedsRename(e) ==
    /\ hasAttribute(e, "id")
    /\ getAttribute(e, "id")[1] # <<>>
    /\ isComplexId(getAttribute(e, "id")[1])

RECURSIVE RenameIds(_, _, _, _)
RenameIds(els, i, idMap, idCounter) ==
    IF i > Len(els) THEN [els |-> els, idMap |-> idMap, idCounter |-> idCounter]
    ELSE IF NeedsRename(els[i])
         THEN RenameIds([els EXCEPT ![i] = RenamedElement(els[i], idCounter)],
                        i + 1,
                        MapPut(idMap, getAttribute(els[i], "id")[1],
                               generateSimpleId(idCounter)),
                        idCounter + 1)
         ELSE RenameIds(els, i + 1, idMap, idCounter)

\* "#" + id
HashRef(id) == <<"#">> \o id

\* the body of urlRefs.forEach for one element matched by
\* [*|href="#oldId"], [href="#oldId"]
HrefOf(e) ==
    IF getAttribute(e, "href") # <<>> /\ getAttribute(e, "href")[1] # <<>>
    THEN getAttribute(e, "href")
    ELSE getAttribute(e, "xlink:href")

SetIfPresent(e, name, value) ==
    IF hasAttribute(e, name) THEN setAttribute(e, name, value) ELSE e

MatchesHrefSelector(e, oldId) ==
    \/ getAttribute(e, "href") = <<HashRef(oldId)>>
    \/ getAttribute(e, "xlink:href") = <<HashRef(oldId)>>

UpdateHref(e, oldId, newId) ==
    IF MatchesHrefSelector(e, oldId) /\ HrefOf(e) = <<HashRef(oldId)>>
    THEN SetIfPresent(SetIfPresent(e, "href", HashRef(newId)), "xlink:href", HashRef(newId))
    ELSE e

\* attr.value = attr.value.replace(`#<<"o", "l", "d", "I", "d">>`, `#<<"n", "e", "w", "I", "d">>`) when it includes it
ReplaceInValue(value, oldId, newId) ==
    IF Includes(value, HashRef(oldId))
    THEN ReplaceFirst(value, HashRef(oldId), HashRef(newId))
    ELSE value

ReplaceInAttrs(e, oldId, newId) ==
    [e EXCEPT !.attrs =
        [i \in 1..Len(e.attrs) |->
            [e.attrs[i] EXCEPT !.value = ReplaceInValue(e.attrs[i].value, oldId, newId)]]]

\* one iteration of Object.entries(idMap).forEach over the descendants
UpdateReferences(els, oldId, newId) ==
    [i \in 1..Len(els) |->
        IF i = 1 THEN els[i]
        ELSE ReplaceInAttrs(UpdateHref(els[i], oldId, newId), oldId, newId)]

RECURSIVE UpdateAllReferences(_, _)
UpdateAllReferences(els, entries) ==
    IF entries = <<>> THEN els
    ELSE UpdateAllReferences(UpdateReferences(els, entries[1][1], entries[1][2]),
                             Tail(entries))

SimplifyWith(renamed) ==
    [els       |-> UpdateAllReferences(renamed.els, ObjectEntries(renamed.idMap)),
     idCounter |-> renamed.idCounter]

\* simplifyIds on the document els, for the sanitizer's idCounter: the document
\* after the call and the counter after it
simplifyIds(els, idCounter) == SimplifyWith(RenameIds(els, 2, <<>>, idCounter))

(***************************************************************************)
(* SVGSanitizer: the security filter and the parse.                        *)
(***************************************************************************)
FORBID_TAGS == {"script", "iframe", "object", "embed", "link"}

FORBID_ATTR == {"onclick", "onload", "onerror", "onmouseover"}

ForbiddenElements(els) == {i \in 1..Len(els) : els[i].tag \in FORBID_TAGS}

\* an element as the filter serialises it: forbidden attributes dropped, every
\* attribute double-quoted
FilteredElement(e) ==
    [e EXCEPT !.attrs =
        [i \in 1..Len(SelectSeq(e.attrs, LAMBDA a : a.name \notin FORBID_ATTR)) |->
            [SelectSeq(e.attrs, LAMBDA a : a.name \notin FORBID_ATTR)[i] EXCEPT !.q = "dq"]]]

FilterElements(els) == [i \in 1..Len(els) |-> FilteredElement(els[i])]

\* DOMPurify.sanitize: the input is parsed leniently (start tags that were read
\* before a cut are kept, and closed), forbidden elements go with their content,
\* forbidden attributes go, and the rest is serialised
securitySanitize(svgContent) ==
    IF svgContent.form = "text" THEN svgContent
    ELSE Markup("wellformed",
                FilterElements(RemoveSubtrees(svgContent.els,
                                              ForbiddenElements(svgContent.els))))

ParserError == <<TextElement("parsererror", 0, <<>>, "parse error")>>

\* new DOMParser().parseFromString(text, 'image/svg+xml'): the elements of the
\* document, or a document whose root is a parsererror element
IsXmlDocument(text) ==
    /\ text.form = "wellformed"
    /\ text.els # <<>>
    /\ text.els[1].depth = 0
    /\ \A i \in 2..Len(text.els) : text.els[i].depth > 0

parseFromString(text) == IF IsXmlDocument(text) THEN text.els ELSE ParserError

IsParserErrorDocument(els) == els[1].tag = "parsererror"

\* svgElement.tagName !== 'svg'
IsInvalidSvgDocument(els) == els[1].tag # "svg"

\* new XMLSerializer().serializeToString(svgElement)
serializeToString(els) ==
    Markup("wellformed",
           [i \in 1..Len(els) |->
               [els[i] EXCEPT !.attrs =
                   [j \in 1..Len(els[i].attrs) |-> [els[i].attrs[j] EXCEPT !.q = "dq"]]]])

(***************************************************************************)
(* SVGSanitizer.removeClipPaths                                            *)
(***************************************************************************)
WithoutClipPathAttr(e) ==
    IF getAttribute(e, "clip-path") # <<>> /\ getAttribute(e, "clip-path")[1] # <<>>
    THEN removeAttribute(e, "clip-path")
    ELSE e

ClipPathElements(els) == {i \in Descendants(els) : els[i].tag = "clipPath"}

UnclipDescendants(els) ==
    [i \in 1..Len(els) |-> IF i = 1 THEN els[i] ELSE WithoutClipPathAttr(els[i])]

removeClipPaths(els) ==
    RemoveSubtrees(UnclipDescendants(els), ClipPathElements(UnclipDescendants(els)))

(***************************************************************************)
(* SVGSanitizer.inlineCssStyles                                            *)
(***************************************************************************)
StyleElements(els) == {i \in Descendants(els) : els[i].tag = "style"}

\* the rules of all style elements, in document order
RECURSIVE StyleRules(_, _)
StyleRules(els, i) ==
    IF i > Len(els) THEN <<>>
    ELSE (IF els[i].tag = "style" THEN els[i].css ELSE <<>>) \o StyleRules(els, i + 1)

\* if (key && value) propMap[key] = value, for each declaration in order
RECURSIVE PropMap(_, _)
PropMap(decls, acc) ==
    IF decls = <<>> THEN acc
    ELSE IF decls[1][1] # "" /\ decls[1][2] # <<>>
         THEN PropMap(Tail(decls), MapPut(acc, decls[1][1], decls[1][2]))
         ELSE PropMap(Tail(decls), acc)

\* cssRules[selector] = propMap for each rule, in order
RECURSIVE CssRules(_, _)
CssRules(rules, acc) ==
    IF rules = <<>> THEN acc
    ELSE CssRules(Tail(rules), MapPut(acc, rules[1][1], PropMap(rules[1][2], <<>>)))

SvgPresentationAttributes ==
    {"fill", "stroke", "stroke-width", "stroke-linecap", "stroke-linejoin",
     "stroke-miterlimit", "opacity", "fill-opacity", "stroke-opacity",
     "font-family", "font-size", "font-weight", "text-anchor"}

\* cssToSvgAttribute: <<>> for null
cssToSvgAttribute(cssProperty) ==
    IF cssProperty \in SvgPresentationAttributes THEN <<cssProperty>> ELSE <<>>

TagChars ==
    [svg |-> <<"s", "v", "g">>, g |-> <<"g">>, rect |-> <<"r", "e", "c", "t">>, text |-> <<"t", "e", "x", "t">>,
     style |-> <<"s", "t", "y", "l", "e">>, clipPath |-> <<"c", "l", "i", "p", "P", "a", "t", "h">>,
     linearGradient |-> <<"l", "i", "n", "e", "a", "r", "G", "r", "a", "d", "i", "e", "n", "t">>, script |-> <<"s", "c", "r", "i", "p", "t">>,
     iframe |-> <<"i", "f", "r", "a", "m", "e">>, parsererror |-> <<"p", "a", "r", "s", "e", "r", "e", "r", "r", "o", "r">>,
     metadata |-> <<"m", "e", "t", "a", "d", "a", "t", "a">>, object |-> <<"o", "b", "j", "e", "c", "t">>, embed |-> <<"e", "m", "b", "e", "d">>,
     link |-> <<"l", "i", "n", "k">>, path |-> <<"p", "a", "t", "h">>]

\* s.split(' ') pieces of a class attribute that are not empty
RECURSIVE WordsFrom(_, _, _)
WordsFrom(s, i, cur) ==
    IF i > Len(s) THEN (IF cur = <<>> THEN {} ELSE {cur})
    ELSE IF IsSpace(s[i])
         THEN (IF cur = <<>> THEN {} ELSE {cur}) \cup WordsFrom(s, i + 1, <<>>)
         ELSE WordsFrom(s, i + 1, Append(cur, s[i]))

ClassesOf(e) ==
    IF hasAttribute(e, "class") THEN WordsFrom(getAttribute(e, "class")[1], 1, <<>>) ELSE {}

\* element.querySelectorAll(selector) for a type selector or a class selector
SelectorMatches(e, selector) ==
    IF selector # <<>> /\ selector[1] = "."
    THEN Tail(selector) \in ClassesOf(e)
    ELSE TagChars[e.tag] = selector

\* the forEach over one rule's properties without the hasAttribute test
RECURSIVE ApplyDeclarationsOverriding(_, _)
ApplyDeclarationsOverriding(e, props) ==
    IF props = <<>> THEN e
    ELSE IF cssToSvgAttribute(props[1][1]) # <<>>
         THEN ApplyDeclarationsOverriding(
                  setAttribute(e, cssToSvgAttribute(props[1][1])[1], props[1][2]), Tail(props))
         ELSE ApplyDeclarationsOverriding(e, Tail(props))

\* the forEach over one rule's properties, on one element
RECURSIVE ApplyDeclarations(_, _)
ApplyDeclarations(e, props) ==
    IF props = <<>> THEN e
    ELSE IF cssToSvgAttribute(props[1][1]) # <<>>
            /\ ~hasAttribute(e, cssToSvgAttribute(props[1][1])[1])
         THEN ApplyDeclarations(setAttribute(e, cssToSvgAttribute(props[1][1])[1], props[1][2]),
                                Tail(props))
         ELSE ApplyDeclarations(e, Tail(props))

ApplyRule(els, selector, props) ==
    [i \in 1..Len(els) |->
        IF i > 1 /\ SelectorMatches(els[i], selector)
        THEN ApplyDeclarations(els[i], props)
        ELSE els[i]]

RECURSIVE ApplyRules(_, _)
ApplyRules(els, entries) ==
    IF entries = <<>> THEN els
    ELSE ApplyRules(ApplyRule(els, entries[1][1], entries[1][2]), Tail(entries))

inlineCssStyles(els) ==
    RemoveSubtrees(ApplyRules(els, CssRules(StyleRules(els, 2), <<>>)), StyleElements(els))

(***************************************************************************)
(* SVGSanitizer.optimizeCoordinates                                        *)
(***************************************************************************)
coordinateAttributes ==
    {"x", "y", "x1", "y1", "x2", "y2", "cx", "cy", "r", "rx", "ry",
     "width", "height", "points", "d", "viewBox"}

\* num.toFixed(2) of a non-negative terminating decimal, rounding half up
Hundredths(a) == (2 * 100 * a.n + a.d) \div (2 * a.d)

toFixed2(a) ==
    NatToStr(Hundredths(a) \div 100) \o <<".">> \o PadDigits(Hundredths(a) % 100, 2)

\* the end (exclusive) of a match of /\d+\.\d{3,}/ that starts at i, 0 if none
DecimalMatchEnd(s, i) ==
    IF /\ i <= Len(s)
       /\ IsDigit(s[i])
       /\ DigitRunEnd(s, i) <= Len(s)
       /\ s[DigitRunEnd(s, i)] = "."
       /\ DigitRunEnd(s, DigitRunEnd(s, i) + 1) - (DigitRunEnd(s, i) + 1) >= 3
    THEN DigitRunEnd(s, DigitRunEnd(s, i) + 1)
    ELSE 0

\* value.replace(/(\d+\.\d{3,})/g, m => parseFloat(m).toFixed(2))
RECURSIVE OptimizeFrom(_, _)
OptimizeFrom(s, i) ==
    IF i > Len(s) THEN <<>>
    ELSE IF DecimalMatchEnd(s, i) # 0
         THEN toFixed2(parseFloat(SubSeq(s, i, DecimalMatchEnd(s, i) - 1)))
                  \o OptimizeFrom(s, DecimalMatchEnd(s, i))
         ELSE <<s[i]>> \o OptimizeFrom(s, i + 1)

optimizeCoordinateValue(value) == OptimizeFrom(value, 1)

OptimizedElement(e) ==
    [e EXCEPT !.attrs =
        [j \in 1..Len(e.attrs) |->
            IF e.attrs[j].name \in coordinateAttributes
            THEN [e.attrs[j] EXCEPT !.value = optimizeCoordinateValue(e.attrs[j].value)]
            ELSE e.attrs[j]]]

optimizeCoordinates(els) ==
    [i \in 1..Len(els) |-> IF i = 1 THEN els[i] ELSE OptimizedElement(els[i])]

(***************************************************************************)
(* SVGSanitizer.replaceNonWebFonts                                         *)
(***************************************************************************)
fontReplacements ==
    << <<<<"N", "i", "m", "b", "u", "s", " ", "S", "a", "n", "s">>, <<"A", "r", "i", "a", "l", ",", " ", "s", "a", "n", "s", "-", "s", "e", "r", "i", "f">>>>,
       <<<<"N", "i", "m", "b", "u", "s", " ", "R", "o", "m", "a", "n">>, <<"T", "i", "m", "e", "s", " ", "N", "e", "w", " ", "R", "o", "m", "a", "n", ",", " ", "s", "e", "r", "i", "f">>>>,
       <<<<"N", "i", "m", "b", "u", "s", " ", "M", "o", "n", "o">>, <<"C", "o", "u", "r", "i", "e", "r", " ", "N", "e", "w", ",", " ", "m", "o", "n", "o", "s", "p", "a", "c", "e">>>>,
       <<<<"L", "i", "b", "e", "r", "a", "t", "i", "o", "n", " ", "S", "a", "n", "s">>, <<"A", "r", "i", "a", "l", ",", " ", "s", "a", "n", "s", "-", "s", "e", "r", "i", "f">>>>,
       <<<<"L", "i", "b", "e", "r", "a", "t", "i", "o", "n", " ", "S", "e", "r", "i", "f">>, <<"T", "i", "m", "e", "s", " ", "N", "e", "w", " ", "R", "o", "m", "a", "n", ",", " ", "s", "e", "r", "i", "f">>>>,
       <<<<"D", "e", "j", "a", "V", "u", " ", "S", "a", "n", "s">>, <<"A", "r", "i", "a", "l", ",", " ", "s", "a", "n", "s", "-", "s", "e", "r", "i", "f">>>>,
       <<<<"D", "e", "j", "a", "V", "u", " ", "S", "e", "r", "i", "f">>, <<"T", "i", "m", "e", "s", " ", "N", "e", "w", " ", "R", "o", "m", "a", "n", ",", " ", "s", "e", "r", "i", "f">>>> >>

\* fontFamily.replace(/['"]/g, '')
StripQuotes(s) == SelectSeq(s, LAMBDA c : c \notin {"'", "\""})

ReplacedFont(e) ==
    IF /\ getAttribute(e, "font-family") # <<>>
       /\ getAttribute(e, "font-family")[1] # <<>>
       /\ KeyIndex(fontReplacements, StripQuotes(getAttribute(e, "font-family")[1])) # 0
    THEN setAttribute(e, "font-family",
             fontReplacements[KeyIndex(fontReplacements,
                                       StripQuotes(getAttribute(e, "font-family")[1]))][2])
    ELSE e

replaceNonWebFonts(els) ==
    [i \in 1..Len(els) |-> IF i = 1 THEN els[i] ELSE ReplacedFont(els[i])]

(***************************************************************************)
(* SVGSanitizer.ensureSvgAttributes                                        *)
(***************************************************************************)
SvgNamespace == <<"h", "t", "t", "p", ":", "/", "/", "w", "w", "w", ".", "w", "3", ".", "o", "r", "g", "/", "2", "0", "0", "0", "/", "s", "v", "g">>

\* s.split(' '): the pieces between single spaces
RECURSIVE SplitSpaceFrom(_, _, _)
SplitSpaceFrom(s, i, cur) ==
    IF i > Len(s) THEN <<cur>>
    ELSE IF s[i] = " " THEN <<cur>> \o SplitSpaceFrom(s, i + 1, <<>>)
    ELSE SplitSpaceFrom(s, i + 1, Append(cur, s[i]))

SplitSpace(s) == SplitSpaceFrom(s, 1, <<>>)

\* `0 0 <<"w">> <<"h">>`
ViewBoxOf(w, h) == <<"0", " ", "0", " ">> \o NumToStr(w) \o <<" ">> \o NumToStr(h)

WithNamespace(root) ==
    IF hasAttribute(root, "xmlns") THEN root ELSE setAttribute(root, "xmlns", SvgNamespace)

\* width and height are read once, before the viewBox is synthesised
NeedsViewBox(root, width, height) ==
    /\ width # <<>> /\ width[1] # <<>>
    /\ height # <<>> /\ height[1] # <<>>
    /\ ~hasAttribute(root, "viewBox")
    /\ ~isNaN(parseFloat(StripNonNumeric(width[1])))
    /\ ~isNaN(parseFloat(StripNonNumeric(height[1])))

WithViewBox(root, width, height) ==
    IF NeedsViewBox(root, width, height)
    THEN setAttribute(root, "viewBox",
                      ViewBoxOf(parseFloat(StripNonNumeric(width[1])),
                                parseFloat(StripNonNumeric(height[1]))))
    ELSE root

\* const [, , w, h] = viewBox.split(' ').map(parseFloat): NaN for undefined
ViewBoxPart(parts, k) == IF k <= Len(parts) THEN parseFloat(parts[k]) ELSE NaN

HasAbsoluteViewBox(root) ==
    /\ getAttribute(root, "viewBox") # <<>>
    /\ getAttribute(root, "viewBox")[1] # <<>>
    /\ ~isNaN(ViewBoxPart(SplitSpace(getAttribute(root, "viewBox")[1]), 3))
    /\ ~isNaN(ViewBoxPart(SplitSpace(getAttribute(root, "viewBox")[1]), 4))

WithAbsoluteSize(root, width, height) ==
    IF width = <<<<"1", "0", "0", "%">>>> /\ height = <<<<"1", "0", "0", "%">>>> /\ HasAbsoluteViewBox(root)
    THEN setAttribute(
             setAttribute(root, "width",
                 NumToStr(ViewBoxPart(SplitSpace(getAttribute(root, "viewBox")[1]), 3))),
             "height",
             NumToStr(ViewBoxPart(SplitSpace(getAttribute(root, "viewBox")[1]), 4)))
    ELSE root

EnsuredRoot(root, width, height) ==
    WithAbsoluteSize(WithViewBox(WithNamespace(root), width, height), width, height)

ensureSvgAttributes(els) ==
    [els EXCEPT ![1] = EnsuredRoot(els[1], getAttribute(els[1], "width"),
                                   getAttribute(els[1], "height"))]

(***************************************************************************)
(* SVGSanitizer.createFallbackSvg, sanitize, sanitizeSvgForPowerPoint      *)
(***************************************************************************)
FallbackWidth == 400

FallbackHeight == 300

\* the diagnostic document; its last text element carries the error message
createFallbackSvg(errorMessage) ==
    Markup("wellformed",
      << Element("svg", 0,
            <<Attr("xmlns", SvgNamespace, "dq"),
              Attr("width", NatToStr(FallbackWidth), "dq"),
              Attr("height", NatToStr(FallbackHeight), "dq"),
              Attr("viewBox", <<"0", " ", "0", " ">> \o NatToStr(FallbackWidth) \o <<" ">>
                                  \o NatToStr(FallbackHeight), "dq")>>),
         Element("rect", 1,
            <<Attr("width", NatToStr(FallbackWidth), "dq"),
              Attr("height", NatToStr(FallbackHeight), "dq"),
              Attr("fill", <<"#", "f", "8", "f", "9", "f", "a">>, "dq"),
              Attr("stroke", <<"#", "d", "e", "e", "2", "e", "6">>, "dq")>>),
         TextElement("text", 1,
            <<Attr("x", <<"2", "0", "0">>, "dq"), Attr("y", <<"1", "4", "0">>, "dq"),
              Attr("text-anchor", <<"m", "i", "d", "d", "l", "e">>, "dq"), Attr("font-size", <<"1", "4">>, "dq"),
              Attr("fill", <<"#", "6", "c", "7", "5", "7", "d">>, "dq")>>,
            "SVG Processing Error"),
         TextElement("text", 1,
            <<Attr("x", <<"2", "0", "0">>, "dq"), Attr("y", <<"1", "6", "0">>, "dq"),
              Attr("text-anchor", <<"m", "i", "d", "d", "l", "e">>, "dq"), Attr("font-size", <<"1", "2">>, "dq"),
              Attr("fill", <<"#", "8", "6", "8", "e", "9", "6">>, "dq")>>,
            errorMessage) >>)

\* the structural modifications, in the order of sanitize (all options are on)
NormalizeFonts(els) == ensureSvgAttributes(replaceNonWebFonts(els))

NormalizeIds(els, idCounter) ==
    NormalizeFonts(optimizeCoordinates(simplifyIds(els, idCounter).els))

Normalize(els, idCounter) == NormalizeIds(inlineCssStyles(removeClipPaths(els)), idCounter)

\* the message of the error caught by sanitize, "" when its try block returns;
\* raised: an exception escaped one of the steps
SanitizeError(els, raised) ==
    IF IsInvalidSvgDocument(els) THEN "Invalid SVG document"
    ELSE IF raised THEN "error"
    ELSE ""

\* sanitize with a catch block that covers the root check only
NormalizedDespiteError(els, raised, idCounter) ==
    IF IsInvalidSvgDocument(els)
    THEN createFallbackSvg("Sanitization failed: Invalid SVG document")
    ELSE serializeToString(Normalize(els, idCounter))

\* the try block of sanitize on the parsed document, for a sanitizer whose
\* idCounter is idCounter
SanitizeParsed(els, raised, idCounter) ==
    IF IsInvalidSvgDocument(els)
    THEN createFallbackSvg("Sanitization failed: Invalid SVG document")
    ELSE IF raised THEN createFallbackSvg("Sanitization failed: error")
    ELSE serializeToString(Normalize(els, idCounter))

\* sanitizer.sanitize(svgContent) on a sanitizer whose idCounter is idCounter
sanitize(svgContent, raised, idCounter) ==
    SanitizeParsed(parseFromString(securitySanitize(svgContent)), raised, idCounter)

\* this.idCounter after that call: simplifyIds is the one step that advances it
CounterAfterParsed(els, raised, idCounter) ==
    IF IsInvalidSvgDocument(els) \/ raised THEN idCounter
    ELSE simplifyIds(inlineCssStyles(removeClipPaths(els)), idCounter).idCounter

CounterAfterSanitize(svgContent, raised, idCounter) ==
    CounterAfterParsed(parseFromString(securitySanitize(svgContent)), raised, idCounter)

\* a fresh SVGSanitizer (idCounter = 0) for every call
sanitizeSvgForPowerPoint(svgContent, raised) == sanitize(svgContent, raised, 0)

sanitizeErrorOf(svgContent, raised) ==
    SanitizeError(parseFromString(securitySanitize(svgContent)), raised)

(***************************************************************************)
(* route.ts: ensureBasicSvgCompatibility, on the text                      *)
(***************************************************************************)
\* processedSvg.includes('xmlns="http://www.w3.org/2000/svg"')
IncludesNamespace(text) ==
    \E i \in 1..Len(AttrOccurrences(text.els)) :
        /\ AttrOccurrences(text.els)[i].name = "xmlns"
        /\ AttrOccurrences(text.els)[i].q = "dq"
        /\ AttrOccurrences(text.els)[i].value = SvgNamespace

\* processedSvg.includes('viewBox=')
IncludesViewBox(text) ==
    \E i \in 1..Len(AttrOccurrences(text.els)) : AttrOccurrences(text.els)[i].name = "viewBox"

\* the position of the first '<svg' in the text, 0 if there is none
FirstSvgTag(text) ==
    IF \E i \in 1..Len(text.els) : text.els[i].tag = "svg"
    THEN CHOOSE i \in 1..Len(text.els) :
             /\ text.els[i].tag = "svg"
             /\ \A j \in 1..(i - 1) : text.els[j].tag # "svg"
    ELSE 0

\* processedSvg.replace('<svg', '<svg name="value"'): the attribute is written
\* right after the first '<svg', whatever the tag already carries
InsertAfterSvgTag(text, name, value) ==
    IF FirstSvgTag(text) = 0 THEN text
    ELSE [text EXCEPT !.els[FirstSvgTag(text)].attrs = <<Attr(name, value, "dq")>> \o @]

EnsureNamespaceText(text) ==
    IF IncludesNamespace(text) THEN text ELSE InsertAfterSvgTag(text, "xmlns", SvgNamespace)

CanDeriveViewBox(text) ==
    /\ MatchAttr(text, "width") # <<>>
    /\ MatchAttr(text, "height") # <<>>
    /\ ~isNaN(parseFloat(MatchAttr(text, "width")[1]))
    /\ ~isNaN(parseFloat(MatchAttr(text, "height")[1]))

EnsureViewBoxText(text) ==
    IF ~IncludesViewBox(text) /\ CanDeriveViewBox(text)
    THEN InsertAfterSvgTag(text, "viewBox",
             ViewBoxOf(parseFloat(MatchAttr(text, "width")[1]),
                       parseFloat(MatchAttr(text, "height")[1])))
    ELSE text

ensureBasicSvgCompatibility(svgContent) == EnsureViewBoxText(EnsureNamespaceText(svgContent))

(***************************************************************************)
(* svgoConfig.ts and the call of SVGO's optimize                           *)
(***************************************************************************)
\* one parameter of one plugin as a rule table sets it; a plugin that a table
\* switches off (removeViewBox: false) has the parameter "enabled" set to "false"
Setting(plugin, param, value) == <<plugin, param, value>>

CompatibleOverrides ==
    { Setting("cleanupNumericValues", "floatPrecision", "2"),
      Setting("cleanupNumericValues", "leadingZero", "true"),
      Setting("cleanupNumericValues", "defaultPx", "true"),
      Setting("cleanupNumericValues", "convertToPx", "false"),
      Setting("convertColors", "currentColor", "false"),
      Setting("convertColors", "names2hex", "true"),
      Setting("convertColors", "rgb2hex", "true"),
      Setting("convertColors", "shortname", "true"),
      Setting("convertColors", "shortHex", "true"),
      Setting("convertPathData", "floatPrecision", "2"),
      Setting("convertPathData", "transformPrecision", "2"),
      Setting("convertPathData", "removeUseless", "true"),
      Setting("convertPathData", "straightCurves", "true"),
      Setting("convertPathData", "lineShorthands", "true"),
      Setting("convertPathData", "curveSmoothShorthands", "true"),
      Setting("convertPathData", "collapseRepeated", "true"),
      Setting("convertTransform", "floatPrecision", "2"),
      Setting("convertTransform", "transformPrecision", "2"),
      Setting("convertTransform", "matrixToTransform", "true"),
      Setting("convertTransform", "shortTransform", "true"),
      Setting("convertTransform", "shortRotation", "true"),
      Setting("convertTransform", "removeUseless", "true"),
      Setting("convertTransform", "collapseIntoOne", "false"),
      Setting("convertTransform", "leadingZero", "true"),
      Setting("convertTransform", "negativeExtraSpace", "false"),
      Setting("removeUselessStrokeAndFill", "removeNone", "false") }

powerpointCompatibleConfig ==
    [plugins |-> {"preset-default"}, floatPrecision |-> 2, overrides |-> CompatibleOverrides]

\* the compatible table with every precision set to 1 and nothing switched off
AggressiveFromCompatible ==
    [plugins |-> {"preset-default"}, floatPrecision |-> 1,
     overrides |-> { Setting(o[1], o[2], IF o[2] \in {"floatPrecision", "transformPrecision"}
                                         THEN "1" ELSE o[3]) : o \in CompatibleOverrides }]

aggressiveOptimizationConfig ==
    [plugins |-> {"preset-default"}, floatPrecision |-> 1,
     overrides |-> { Setting("removeViewBox", "enabled", "false"),
                     Setting("removeDimensions", "enabled", "false"),
                     Setting("cleanupNumericValues", "floatPrecision", "1") }]

conservativeConfig ==
    [plugins |-> {"removeDoctype", "removeXMLProcInst", "removeComments", "removeMetadata",
                  "removeEditorsNSData", "cleanupAttrs", "cleanupNumericValues"},
     floatPrecision |-> 3,
     overrides |-> { Setting("cleanupNumericValues", "floatPrecision", "3"),
                     Setting("cleanupNumericValues", "leadingZero", "true"),
                     Setting("cleanupNumericValues", "defaultPx", "false"),
                     Setting("cleanupNumericValues", "convertToPx", "false") }]

getSvgoConfig(level) ==
    CASE level = "conservative" -> conservativeConfig
      [] level = "aggressive"   -> aggressiveOptimizationConfig
      [] OTHER                  -> powerpointCompatibleConfig

\* the value a table gives a parameter of a plugin; "default" when the table does
\* not set it (the value is then the one built into the optimizer)
SettingOf(config, plugin, param) ==
    IF \E o \in config.overrides : o[1] = plugin /\ o[2] = param
    THEN (CHOOSE o \in config.overrides : o[1] = plugin /\ o[2] = param)[3]
    ELSE "default"

\* removeMetadata is a plugin of every table (preset-default contains it)
RemovesMetadata(config) ==
    "removeMetadata" \in config.plugins \/ "preset-default" \in config.plugins

MetadataElements(els) == {i \in 1..Len(els) : els[i].tag = "metadata"}

\* optimize(processedSvg, svgoConfig).data: of the rewriting SVGO does, the
\* removal of metadata elements is what the elements and attributes kept here show
optimize(text, config) ==
    IF RemovesMetadata(config)
    THEN [text EXCEPT !.els = RemoveSubtrees(text.els, MetadataElements(text.els))]
    ELSE text

(***************************************************************************)
(* route.ts: processSvgForPptx, as the route of one document through it    *)
(***************************************************************************)
\* the three ways sanitizeSvgForPowerPoint can end: it returns the normalised
\* document, an exception inside sanitize is caught there, or the construction
\* of the SVGSanitizer raises
SanitizeOutcomes == {"returned", "caught", "raised"}

\* the try block up to the return: sanitized is the output of step 1, svgoRaised
\* tells whether optimize raised
OptimizedOrSanitized(sanitized, level, svgoRaised) ==
    IF svgoRaised THEN sanitized ELSE optimize(sanitized, getSvgoConfig(level))

TryProcess(svgContent, level, caught, svgoRaised) ==
    ensureBasicSvgCompatibility(
        OptimizedOrSanitized(sanitizeSvgForPowerPoint(svgContent, caught), level, svgoRaised))

\* the catch block: the original input, minimally fixed
CatchProcess(svgContent) == ensureBasicSvgCompatibility(svgContent)

\* every document processSvgForPptx can return for an input
ProcessOutcomes(svgContent, level) ==
    { TryProcess(svgContent, level, caught, svgoRaised) : caught, svgoRaised \in BOOLEAN }
    \cup { CatchProcess(svgContent) }

(***************************************************************************)
(* route.ts: processEmfForPptx                                             *)
(***************************************************************************)
Base64Alphabet == <<"A", "B", "C", "D", "E", "F", "G", "H", "I", "J", "K", "L", "M", "N", "O", "P", "Q", "R", "S", "T", "U", "V", "W", "X", "Y", "Z", "a", "b", "c", "d", "e", "f", "g", "h", "i", "j", "k", "l", "m", "n", "o", "p", "q", "r", "s", "t", "u", "v", "w", "x", "y", "z", "0", "1", "2", "3", "4", "5", "6", "7", "8", "9", "+", "/">>

Base64Char(n) == Base64Alphabet[n + 1]

\* buffer.toString('base64')
RECURSIVE Base64(_)
Base64(bytes) ==
    IF bytes = <<>> THEN <<>>
    ELSE IF Len(bytes) = 1
    THEN <<Base64Char(bytes[1] \div 4), Base64Char((bytes[1] % 4) * 16), "=", "=">>
    ELSE IF Len(bytes) = 2
    THEN <<Base64Char(bytes[1] \div 4),
           Base64Char((bytes[1] % 4) * 16 + bytes[2] \div 16),
           Base64Char((bytes[2] % 16) * 4), "=">>
    ELSE <<Base64Char(bytes[1] \div 4),
           Base64Char((bytes[1] % 4) * 16 + bytes[2] \div 16),
           Base64Char((bytes[2] % 16) * 4 + bytes[3] \div 64),
           Base64Char(bytes[3] % 64)>> \o Base64(SubSeq(bytes, 4, Len(bytes)))

NoText == Markup("text", <<>>)

\* `data:image/svg+xml;base64,<<"s", "v", "g", "B", "a", "s", "e", "6", "4">>`: the payload is kept as the document
\* whose UTF-8 text it encodes
SvgDataUri(doc) == [mime |-> "image/svg+xml", doc |-> doc, base64 |-> <<>>]

\* the bytes read as 7-bit text before they are encoded
EmfDataUriAscii(bytes) ==
    [mime |-> "image/x-emf", doc |-> Markup("text", <<>>),
     base64 |-> Base64([i \in 1..Len(bytes) |-> bytes[i] % 128])]

\* `data:image/x-emf;base64,<<"b", "a", "s", "e", "6", "4", "D", "a", "t", "a">>`
EmfDataUri(bytes) == [mime |-> "image/x-emf", doc |-> NoText, base64 |-> Base64(bytes)]

EmfFallbackSvg ==
    Markup("wellformed",
      << Element("svg", 0,
            <<Attr("xmlns", SvgNamespace, "dq"),
              Attr("width", NatToStr(FallbackWidth), "dq"),
              Attr("height", NatToStr(FallbackHeight), "dq"),
              Attr("viewBox", <<"0", " ", "0", " ">> \o NatToStr(FallbackWidth) \o <<" ">>
                                  \o NatToStr(FallbackHeight), "dq")>>),
         Element("rect", 1,
            <<Attr("width", NatToStr(FallbackWidth), "dq"),
              Attr("height", NatToStr(FallbackHeight), "dq"),
              Attr("fill", <<"#", "f", "8", "f", "9", "f", "a">>, "dq"),
              Attr("stroke", <<"#", "d", "e", "e", "2", "e", "6">>, "dq")>>),
         TextElement("text", 1,
            <<Attr("x", <<"2", "0", "0">>, "dq"), Attr("y", <<"1", "5", "0">>, "dq"),
              Attr("text-anchor", <<"m", "i", "d", "d", "l", "e">>, "dq"), Attr("font-size", <<"1", "6">>, "dq"),
              Attr("fill", <<"#", "6", "c", "7", "5", "7", "d">>, "dq")>>,
            "EMF Processing Error") >>)

\* raised: the encoding raised and the catch block answered
processEmfForPptx(emfBuffer, raised) ==
    IF raised
    THEN [data |-> SvgDataUri(EmfFallbackSvg), type |-> "svg"]
    ELSE [data |-> EmfDataUri(emfBuffer), type |-> "emf"]

(***************************************************************************)
(* route.ts: sanitizeFilename                                              *)
(***************************************************************************)
ForbiddenFilenameChars == {"<", ">", ":", "\"", "/", "\\", "|", "?", "*"}

MaxFilenameLength == 100

\* the characters of s at the positions in keep, in order
RECURSIVE KeepAt(_, _, _, _)
KeepAt(s, keep, lo, hi) ==
    IF lo > hi THEN <<>>
    ELSE IF lo = hi THEN (IF lo \in keep THEN <<s[lo]>> ELSE <<>>)
    ELSE LET mid == (lo + hi) \div 2
         IN  KeepAt(s, keep, lo, mid) \o KeepAt(s, keep, mid + 1, hi)

\* .replace(/\s+/g, '-'): every run of white space becomes one hyphen
HyphenateSpaces(s) ==
    KeepAt([i \in 1..Len(s) |-> IF IsSpace(s[i]) THEN "-" ELSE s[i]],
           { i \in 1..Len(s) : ~IsSpace(s[i]) \/ i = 1 \/ ~IsSpace(s[i - 1]) },
           1, Len(s))

\* .replace(/\.+/g, '.'): every run of dots becomes one dot
CollapseDots(s) ==
    KeepAt(s, { i \in 1..Len(s) : ~(s[i] = "." /\ i < Len(s) /\ s[i + 1] = ".") }, 1, Len(s))

DropLeadingDot(s) == IF s # <<>> /\ s[1] = "." THEN Tail(s) ELSE s

DropTrailingDot(s) == IF s # <<>> /\ s[Len(s)] = "." THEN SubSeq(s, 1, Len(s) - 1) ELSE s

Substring(s, n) == IF Len(s) > n THEN SubSeq(s, 1, n) ELSE s

DefaultFilename == <<"c", "o", "n", "v", "e", "r", "t", "e", "d", "-", "p", "r", "e", "s", "e", "n", "t", "a", "t", "i", "o", "n">>

OrDefault(s) == IF s = <<>> THEN DefaultFilename ELSE s

CleanFilename(filename) ==
    CollapseDots(HyphenateSpaces(SelectSeq(filename, LAMBDA c : c \notin ForbiddenFilenameChars)))

sanitizeFilename(filename) ==
    OrDefault(Substring(DropTrailingDot(DropLeadingDot(CleanFilename(filename))),
                        MaxFilenameLength))

(***************************************************************************)
(* State.                                                                  *)
(***************************************************************************)
VARIABLES
    fitText,      \* layout fitter: the markup text handed to calculateOptimalImageSize
    fitLayout,    \* layout fitter: the name of the canvas
    placement,    \* layout fitter: the returned rectangle, NoPlacement before the call
    idsDoc,       \* simplifyIds: the document before the call
    idsCounter,   \* simplifyIds: this.idCounter
    idsResult,    \* simplifyIds: the document after the call, <<>> before it
    request,      \* POST: the request (multipart or not, its files)
    pc,           \* POST: the position of the handler
    index,        \* POST: the position of the for loop in files
    svgContent,   \* POST: the decoded text of the file in hand
    level,        \* POST: processingOptions.optimization for the file in hand
    processedSvg, \* processSvgForPptx: its local of that name, then its return value
    sanitizeError,\* sanitize: the message of the error its catch block got, "" if none
    svgoError,    \* processSvgForPptx: whether the catch block of step 2 was entered
    slides,       \* POST: the slides of pptx, each a sequence of images
    response,     \* POST: the response, status 0 before it is sent
    sanInput,     \* sanitizer: the document under study
    sanCounter,   \* sanitizer: this.idCounter of the SVGSanitizer that is kept and reused
    sanCalls,     \* sanitizer: the calls made so far, each with its input and output
    stepDoc,      \* normalizer step: the parsed document before the step
    stepName,     \* normalizer step: the step that ran, "" before it
    stepResult,   \* normalizer step: the document after the step, <<>> before it
    emfBuffer,    \* processEmfForPptx: the bytes of the file
    emfResult,    \* processEmfForPptx: the returned object, type "" before the call
    cfgLevel,     \* svgoConfig: the level handed to getSvgoConfig
    cfgPlugin,    \* svgoConfig: the plugin a setting is read of
    cfgParam,     \* svgoConfig: the parameter that is read
    cfgValue,     \* svgoConfig: the value found in the table, "unread" before the lookup
    nameParam,    \* filename: the filename parameter of the URL, <<>> when absent
    nameResult,   \* filename: the sanitized name, <<>> before the call
    uiFiles,      \* page.tsx: the state files, each file with its name and size
    isConverting, \* page.tsx: the state isConverting
    uiError,      \* page.tsx: the state error, "" for null
    processingStatus, \* page.tsx: the state processingStatus
    uiPc,         \* page.tsx: the position of convertToPptx ("idle" when none runs)
    timers        \* page.tsx: the pending setTimeout callbacks that reset the status

fitVars == <<fitText, fitLayout, placement>>

idsVars == <<idsDoc, idsCounter, idsResult>>

postVars ==
    <<request, pc, index, svgContent, level, processedSvg, sanitizeError, svgoError,
      slides, response>>

sanVars == <<sanInput, sanCounter, sanCalls>>

stepVars == <<stepDoc, stepName, stepResult>>

emfVars == <<emfBuffer, emfResult>>

cfgVars == <<cfgLevel, cfgPlugin, cfgParam, cfgValue>>

nameVars == <<nameParam, nameResult>>

uiVars == <<uiFiles, isConverting, uiError, processingStatus, uiPc, timers>>

moreVars == <<cfgVars, nameVars, uiVars>>

unitVars == <<sanVars, stepVars, emfVars, moreVars>>

vars == <<fitVars, idsVars, postVars, unitVars>>

NoPlacement == [x |-> NaN, y |-> NaN, w |-> NaN, h |-> NaN,
                originalWidth |-> NaN, originalHeight |-> NaN, aspectRatio |-> NaN,
                none |-> TRUE]

(***************************************************************************)
(* Layout fitter inputs: a root svg element carrying any combination of    *)
(* width, height and viewBox.                                              *)
(***************************************************************************)
SampleDims ==
    { <<"1", "0", "0">>, <<"1", "6", "0", "0">>, <<"9", "0", "0">>,
      <<"7", "2">>, <<"3", "7">>, <<"2", ".", "5">>,
      <<"1", "0", "0", "%">>, <<"a", "u", "t", "o">>, <<".">> }

DimValues == {NatToStr(n) : n \in 0..MaxDim} \cup SampleDims

ViewBoxParts == { <<"0">>, <<"4">>, <<"a">> }

ViewBoxValues ==
    { Join(<<(<<"0">>), (<<"0">>), a, b>>, <<" ">>) : a, b \in ViewBoxParts }
    \cup { <<"0", ",", "0", ",", "4", ",", "3">>,
           <<"0", " ", "0", " ", "4">>,
           <<"0", " ", "0", " ", "-", "4", " ", "3">>,
           <<" ", "0", " ", "0", " ", "4", " ", "3">> }

\* <<>> for an absent attribute, <<v>> for one of value v
Optional(S) == {<<>>} \cup {<<v>> : v \in S}

OptAttr(name, opt, q) == IF opt = <<>> THEN <<>> ELSE <<Attr(name, opt[1], q)>>

RootOnlyText(w, h, vb, q) ==
    Markup("wellformed",
           <<Element("svg", 0,
                     OptAttr("width", w, q) \o OptAttr("height", h, q)
                         \o OptAttr("viewBox", vb, q))>>)

\* `<svg viewBox="0 0 1600 900" width="1600" height="900"></svg>`
EmfVirtualSvg ==
    Markup("wellformed",
           <<Element("svg", 0,
                     <<Attr("viewBox", <<"0", " ", "0", " ", "1", "6", "0", "0", " ", "9", "0", "0">>, "dq"),
                       Attr("width", <<"1", "6", "0", "0">>, "dq"),
                       Attr("height", <<"9", "0", "0">>, "dq")>>)>>)

\* <svg viewBox="0 0 4 3"><rect width="100" height="900"/></svg>
ChildSizeText ==
    Markup("wellformed",
           <<Element("svg", 0, <<Attr("viewBox", <<"0", " ", "0", " ", "4", " ", "3">>, "dq")>>),
             Element("rect", 1, <<Attr("width", <<"1", "0", "0">>, "dq"),
                                  Attr("height", <<"9", "0", "0">>, "dq")>>)>>)

\* <svg viewBox="0 0 4 3"><rect stroke-width="2" height="37"/></svg>
StrokeWidthText ==
    Markup("wellformed",
           <<Element("svg", 0, <<Attr("viewBox", <<"0", " ", "0", " ", "4", " ", "3">>, "dq")>>),
             Element("rect", 1, <<Attr("stroke-width", <<"2">>, "dq"),
                                  Attr("height", <<"3", "7">>, "dq")>>)>>)

FitTexts ==
    { RootOnlyText(w, h, vb, "dq") :
          w \in Optional(DimValues), h \in Optional(DimValues),
          vb \in Optional(ViewBoxValues) }
    \cup { RootOnlyText(w, w, vb, "sq") :
          w \in Optional(SampleDims), vb \in Optional(ViewBoxValues) }
    \cup {EmfVirtualSvg, ChildSizeText, StrokeWidthText}

\* the variables of the layout fitter when it is not the unit under check
FitIdle ==
    /\ fitText = Markup("text", <<>>)
    /\ fitLayout = "widescreen"
    /\ placement = NoPlacement

\* the variables of simplifyIds when it is not the unit under check
IdsIdle ==
    /\ idsDoc = <<>>
    /\ idsCounter = 0
    /\ idsResult = <<>>

NoResponse == [status |-> 0, error |-> "", filename |-> <<>>, pptx |-> <<>>]

\* the variables of the POST handler when it is not the unit under check
PostIdle ==
    /\ request = [multipart |-> FALSE, files |-> <<>>]
    /\ pc = "idle"
    /\ index = 0
    /\ svgContent = NoText
    /\ level = "compatible"
    /\ processedSvg = NoText
    /\ sanitizeError = ""
    /\ svgoError = FALSE
    /\ slides = <<>>
    /\ response = NoResponse

\* the variables of the sanitizer study when it is not the unit under check
SanIdle ==
    /\ sanInput = NoText
    /\ sanCounter = 0
    /\ sanCalls = <<>>

\* the variables of the normalizer steps when they are not the unit under check
StepIdle ==
    /\ stepDoc = <<>>
    /\ stepName = ""
    /\ stepResult = <<>>

NoEmfResult == [data |-> [mime |-> "", doc |-> NoText, base64 |-> <<>>], type |-> ""]

\* the variables of processEmfForPptx when it is not the unit under check
EmfIdle ==
    /\ emfBuffer = <<>>
    /\ emfResult = NoEmfResult

\* the variables of the rule tables when they are not the unit under check
CfgIdle ==
    /\ cfgLevel = ""
    /\ cfgPlugin = ""
    /\ cfgParam = ""
    /\ cfgValue = ""

\* the variables of sanitizeFilename when it is not the unit under check
NameIdle ==
    /\ nameParam = <<>>
    /\ nameResult = <<>>

\* the variables of the upload page when it is not the unit under check
UiIdle ==
    /\ uiFiles = <<>>
    /\ isConverting = FALSE
    /\ uiError = ""
    /\ processingStatus = ""
    /\ uiPc = "off"
    /\ timers = 0

MoreIdle == CfgIdle /\ NameIdle /\ UiIdle

UnitsIdle == SanIdle /\ StepIdle /\ EmfIdle /\ MoreIdle

FitInit ==
    /\ fitText \in FitTexts
    /\ fitLayout \in LayoutNames
    /\ placement = NoPlacement
    /\ IdsIdle
    /\ PostIdle
    /\ UnitsIdle

\* const imageSize = calculateOptimalImageSize(processedSvg, selectedLayout)
Fit ==
    /\ placement = NoPlacement
    /\ placement' = calculateOptimalImageSize(fitText, SLIDE_LAYOUTS[fitLayout])
    /\ UNCHANGED <<fitText, fitLayout, idsVars, postVars, unitVars>>

FitNext == Fit

SpecFit == FitInit /\ [][FitNext]_vars

(***************************************************************************)
(* simplifyIds inputs: under the root, up to MaxDefs gradient definitions  *)
(* with identifiers, then up to MaxRefs elements that reference them by    *)
(* fill="url(#x)", href="#x", xlink:href="#x" or filter="url(#x) url(#y)". *)
(***************************************************************************)
SampleIds == { <<"a">>, <<"a", "b">>, <<"g", "-", "1">>, <<"g", "r", "a", "d", "i", "e", "n", "t", "-", "l", "o", "n", "g">> }

PrefixIds == { <<"a">>, <<"a", "b">> }

UrlRef(id) == <<"u", "r", "l", "(", "#">> \o id \o <<")">>

DefElement(id) == Element("linearGradient", 1, <<Attr("id", id, "dq")>>)

RefElements ==
    { Element("rect", 1, <<Attr("fill", UrlRef(id), "dq")>>) : id \in SampleIds }
    \cup { Element("linearGradient", 1, <<Attr("href", HashRef(id), "dq")>>) : id \in SampleIds }
    \cup { Element("linearGradient", 1, <<Attr("xlink:href", HashRef(id), "dq")>>) : id \in SampleIds }
    \cup { Element("g", 1, <<Attr("filter", UrlRef(x) \o <<" ">> \o UrlRef(y), "dq")>>) :
               x, y \in PrefixIds }

SeqsUpTo(S, n) == UNION { [1..k -> S] : k \in 0..n }

\* <svg id="svg8"><linearGradient id="a"/></svg>: the root has an identifier
RootIdDoc == <<Element("svg", 0, <<Attr("id", <<"s", "v", "g", "8">>, "dq")>>), DefElement(<<"a">>)>>

\* <svg><linearGradient id="b"/><linearGradient id="id1"/><rect fill="url(#b)"/></svg>:
\* an identifier of the document is one the step generates
GeneratedIdDoc ==
    <<Element("svg", 0, <<>>), DefElement(<<"b">>), DefElement(<<"i", "d", "1">>),
      Element("rect", 1, <<Attr("fill", UrlRef(<<"b">>), "dq")>>)>>

\* <svg id="id1"><linearGradient id="a"/></svg>
RootGeneratedIdDoc ==
    <<Element("svg", 0, <<Attr("id", <<"i", "d", "1">>, "dq")>>), DefElement(<<"a">>)>>

IdsDocs ==
    { <<Element("svg", 0, <<>>)>> \o [i \in 1..Len(ds) |-> DefElement(ds[i])] \o rs :
          ds \in SeqsUpTo(SampleIds, MaxDefs), rs \in SeqsUpTo(RefElements, MaxRefs) }
    \cup { RootIdDoc, GeneratedIdDoc, RootGeneratedIdDoc }

IdsInit ==
    /\ idsDoc \in IdsDocs
    /\ idsCounter = 0
    /\ idsResult = <<>>
    /\ FitIdle
    /\ PostIdle
    /\ UnitsIdle

\* this.simplifyIds(svgElement)
SimplifyIds ==
    /\ idsResult = <<>>
    /\ idsDoc # <<>>
    /\ idsResult' = simplifyIds(idsDoc, idsCounter).els
    /\ idsCounter' = simplifyIds(idsDoc, idsCounter).idCounter
    /\ UNCHANGED <<idsDoc, fitVars, postVars, unitVars>>

IdsNext == SimplifyIds

SpecIds == IdsInit /\ [][IdsNext]_vars

(***************************************************************************)
(* Claims about the layout fitter (checked under SpecFit).                 *)
(***************************************************************************)
Fitted == placement # NoPlacement

FitCanvas == SLIDE_LAYOUTS[fitLayout]

IsPositive(a) == a.k = "fin" /\ a.n > 0

PositiveSize == IsPositive(placement.originalWidth) /\ IsPositive(placement.originalHeight)

\* |a - b| <= tol
Near(a, b, tol) == FLe(FAbs(FSub(a, b)), tol)

\* C1: for every input document and each canvas the returned rectangle lies in
\* [0.2, canvasWidth - 0.2] x [0.2, canvasHeight - 0.2].
C1_ContainedInCanvas ==
    Fitted =>
        /\ FGe(placement.x, Fin(2, 10))
        /\ FGe(placement.y, Fin(2, 10))
        /\ FLe(FAdd(placement.x, placement.w), FSub(FitCanvas.width, Fin(2, 10)))
        /\ FLe(FAdd(placement.y, placement.h), FSub(FitCanvas.height, Fin(2, 10)))

C3_ContainedInContentArea ==
    (Fitted /\ PositiveSize) =>
        /\ FLe(FitCanvas.margin, placement.x)
        /\ FLe(FAdd(placement.x, placement.w), FSub(FitCanvas.width, FitCanvas.margin))
        /\ FLe(FitCanvas.margin, placement.y)
        /\ FLe(FAdd(placement.y, placement.h), FSub(FitCanvas.height, FitCanvas.margin))

\* a height-bound fit that is strictly narrower than the content area
C3_Witness ==
    /\ Fitted
    /\ PositiveSize
    /\ placement.h = FitCanvas.contentHeight
    /\ FLt(placement.w, FitCanvas.contentWidth)
    /\ FLt(FitCanvas.margin, placement.x)

\* C4: the width-bound branch is taken exactly when aspectRatio >
\* contentWidth/contentHeight and gives w = contentWidth, h = w/aspectRatio,
\* x = margin, y = margin + (contentHeight - h)/2; otherwise h = contentHeight,
\* w = h*aspectRatio, y = margin, x = margin + (contentWidth - w)/2; a 100x100
\* document on the widescreen canvas gets h = w = 4.625 and x ~ 2.69.
C4_BranchGeometry ==
    Fitted =>
        LET L  == FitCanvas
            ar == FDiv(placement.originalWidth, placement.originalHeight)
        IN  /\ IF FGt(ar, FDiv(L.contentWidth, L.contentHeight))
               THEN /\ placement.w = L.contentWidth
                    /\ placement.h = FDiv(placement.w, ar)
                    /\ placement.x = L.margin
                    /\ placement.y =
                           FAdd(L.margin, FDiv(FSub(L.contentHeight, placement.h), Num(2)))
               ELSE /\ placement.h = L.contentHeight
                    /\ placement.w = FMul(placement.h, ar)
                    /\ placement.y = L.margin
                    /\ placement.x =
                           FAdd(L.margin, FDiv(FSub(L.contentWidth, placement.w), Num(2)))
            /\ (/\ fitLayout = "widescreen"
                /\ placement.originalWidth = Num(100)
                /\ placement.originalHeight = Num(100))
               => /\ placement.h = Fin(4625, 1000)
                  /\ placement.w = Fin(4625, 1000)
                  /\ Near(placement.x, Fin(269, 100), Fin(5, 1000))

\* the square 100x100 document fitted on the widescreen canvas
C4_Witness ==
    /\ Fitted
    /\ fitLayout = "widescreen"
    /\ placement.originalWidth = Num(100)
    /\ placement.originalHeight = Num(100)
    /\ placement.aspectRatio = Num(1)

Is1600x900OnWidescreen ==
    /\ Fitted
    /\ fitLayout = "widescreen"
    /\ placement.originalWidth = Num(1600)
    /\ placement.originalHeight = Num(900)

\* C5 as stated: on the widescreen canvas a 1600x900 document takes the
\* width-bound path: w = 9, h ~ 5.06, x = 0.5, y ~ 0.78.
C5_Original ==
    Is1600x900OnWidescreen =>
        /\ placement.w = Num(9)
        /\ Near(placement.h, Fin(506, 100), Fin(1, 100))
        /\ placement.x = Fin(5, 10)
        /\ Near(placement.y, Fin(78, 100), Fin(1, 100))

\* C5 (amended): on the widescreen canvas a 1600x900 document (ratio 1.778, below
\* the content ratio 9/4.625 ~ 1.946) takes the height-bound path: h = 4.625,
\* w = 4.625 * 16/9 ~ 8.22, x ~ 0.89, y = 0.5.
C5_HeightBound1600x900 ==
    Is1600x900OnWidescreen =>
        /\ ~FGt(placement.aspectRatio,
                FDiv(FitCanvas.contentWidth, FitCanvas.contentHeight))
        /\ placement.h = Fin(4625, 1000)
        /\ Near(placement.w, Fin(822, 100), Fin(1, 100))
        /\ Near(placement.x, Fin(89, 100), Fin(1, 100))
        /\ placement.y = Fin(5, 10)

\* the virtual document of the EMF path fitted on the widescreen canvas
C5_Witness == Is1600x900OnWidescreen /\ fitText = EmfVirtualSvg

\* the value of the root element's attribute of exactly that name: <<>> or <<v>>
RootAttribute(text, name) ==
    LET as == text.els[1].attrs
        at == {i \in 1..Len(as) : as[i].name = name}
    IN  IF at = {} THEN <<>> ELSE <<as[CHOOSE i \in at : \A j \in at : i <= j].value>>

\* C6: the intrinsic size is the explicit width/height when they yield numbers,
\* otherwise the viewBox's third and fourth components when a viewBox is present,
\* and the default 576x432 only when neither is available.
C6_SizePrecedence ==
    Fitted =>
        LET w     == RootAttribute(fitText, "width")
            h     == RootAttribute(fitText, "height")
            vb    == RootAttribute(fitText, "viewBox")
            pw    == parseFloat(StripNonNumeric(w[1]))
            ph    == parseFloat(StripNonNumeric(h[1]))
            parts == SplitWsComma(vb[1])
            size  == <<placement.originalWidth, placement.originalHeight>>
        IN  IF w # <<>> /\ h # <<>> /\ ~isNaN(pw) /\ ~isNaN(ph)
            THEN size = <<pw, ph>>
            ELSE IF vb # <<>> /\ Len(parts) >= 4
            THEN size = <<parseFloat(parts[3]), parseFloat(parts[4])>>
            ELSE size = <<Num(576), Num(432)>>

\* the root element alone, with its width, height and viewBox attributes only
RootSizeOnly(text) ==
    Markup(text.form,
           <<[text.els[1] EXCEPT
                 !.attrs = SelectSeq(@, LAMBDA a : a.name \in {"width", "height", "viewBox"})]>>)

\* C27: the original width and height the fitter uses are those the width,
\* height and viewBox attributes of the root element give; no other element
\* and no attribute of another name takes part.
C27_SizeFromRoot ==
    Fitted =>
        <<placement.originalWidth, placement.originalHeight>>
            = ExtractOriginalSize(RootSizeOnly(fitText))

(***************************************************************************)
(* Claims about simplifyIds (checked under SpecIds).                       *)
(***************************************************************************)
\* the identifiers referenced by url(#...) in a value, from position i on
RECURSIVE UrlRefsFrom(_, _)
UrlRefsFrom(value, i) ==
    IF i > Len(value) THEN <<>>
    ELSE IF OccursAt(value, <<"u", "r", "l", "(", "#">>, i)
         THEN LET close == {j \in (i + 5)..Len(value) : value[j] = ")"}
                  stop  == IF close = {} THEN Len(value) + 1
                           ELSE CHOOSE j \in close : \A k \in close : j <= k
              IN  <<SubSeq(value, i + 5, stop - 1)>> \o UrlRefsFrom(value, stop + 1)
         ELSE UrlRefsFrom(value, i + 1)

\* the identifiers an attribute refers to: href="#x", xlink:href="#x", url(#x)
ReferencesOf(a) ==
    IF a.name \in {"href", "xlink:href"}
    THEN (IF a.value # <<>> /\ a.value[1] = "#" THEN <<Tail(a.value)>> ELSE <<>>)
    ELSE UrlRefsFrom(a.value, 1)

\* the element identifiers of a document
IdentifiersOf(els) ==
    { getAttribute(els[i], "id")[1] : i \in {j \in 1..Len(els) : hasAttribute(els[j], "id")} }

Simplified == idsResult # <<>>

\* C10: every reference url(#x) or href/xlink:href="#x" that resolved to an
\* element identifier before simplifyIds still resolves to an existing element
\* identifier after it.
C10_NoDanglingReference ==
    Simplified =>
        \A e \in 1..Len(idsDoc) : \A a \in 1..Len(idsDoc[e].attrs) :
            LET before == ReferencesOf(idsDoc[e].attrs[a])
                after  == ReferencesOf(idsResult[e].attrs[a])
            IN  \A k \in 1..Len(before) :
                    before[k] \in IdentifiersOf(idsDoc)
                        => /\ k <= Len(after)
                           /\ after[k] \in IdentifiersOf(idsResult)

(***************************************************************************)
(* route.ts: POST.  The handler is followed through its positions: "start" *)
(* (parseFormData), "file" (the head of the for loop), "sanitize",         *)
(* "optimize", "finalize" and "fallback" (inside processSvgForPptx),       *)
(* "place" (calculateOptimalImageSize and slide.addImage), "write"         *)
(* (pptx.write and the response) and "done".                               *)
(***************************************************************************)
MaxFiles == 2

UpperAlphabet == <<"A", "B", "C", "D", "E", "F", "G", "H", "I", "J", "K", "L", "M", "N", "O", "P", "Q", "R", "S", "T", "U", "V", "W", "X", "Y", "Z">>

LowerAlphabet == <<"a", "b", "c", "d", "e", "f", "g", "h", "i", "j", "k", "l", "m", "n", "o", "p", "q", "r", "s", "t", "u", "v", "w", "x", "y", "z">>

toLowerCase(s) ==
    [i \in 1..Len(s) |->
        IF \E k \in 1..Len(UpperAlphabet) : UpperAlphabet[k] = s[i]
        THEN LowerAlphabet[CHOOSE k \in 1..Len(UpperAlphabet) : UpperAlphabet[k] = s[i]]
        ELSE s[i]]

\* fileName.split('.').pop(): what follows the last dot, the whole name if none
RECURSIVE LastPiece(_, _)
LastPiece(s, i) ==
    IF i = 0 THEN s
    ELSE IF s[i] = "." THEN SubSeq(s, i + 1, Len(s))
    ELSE LastPiece(s, i - 1)

fileExtension(fileName) == toLowerCase(LastPiece(fileName, Len(fileName)))

\* svgContent.includes('clipPath') || svgContent.includes('<style')
IncludesWord(text, word) ==
    \/ \E i \in 1..Len(text.els) : Includes(TagChars[text.els[i].tag], word)
    \/ \E i \in 1..Len(AttrOccurrences(text.els)) :
           Includes(AttrOccurrences(text.els)[i].value, word)

IncludesStyleTag(text) ==
    \E i \in 1..Len(text.els) :
        Len(TagChars[text.els[i].tag]) >= 5
            /\ SubSeq(TagChars[text.els[i].tag], 1, 5) = <<"s", "t", "y", "l", "e">>

\* the level the comment at part_000:264 speaks of, were it the one selected
aggressiveWhenComplex(text) ==
    IF IncludesWord(text, <<"c", "l", "i", "p", "P", "a", "t", "h">>) \/ IncludesStyleTag(text)
    THEN "aggressive"
    ELSE "conservative"

processingLevel(text) ==
    IF IncludesWord(text, <<"c", "l", "i", "p", "P", "a", "t", "h">>) \/ IncludesStyleTag(text)
    THEN "compatible"
    ELSE "conservative"

\* pptx.addSlide()
addSlide(pres) == Append(pres, <<>>)

addImageToFirstSlide(pres, image) == [pres EXCEPT ![1] = Append(@, image)]

\* slide.addImage(...) on the slide the iteration added
addImage(pres, image) == [pres EXCEPT ![Len(pres)] = Append(@, image)]

Image(data, size) == [data |-> data, x |-> size.x, y |-> size.y, w |-> size.w, h |-> size.h]

selectedLayout == SLIDE_LAYOUTS["widescreen"]

(***************************************************************************)
(* Requests: up to MaxFiles files out of SampleFiles, with or without a    *)
(* filename parameter, and a request that is not multipart.                *)
(***************************************************************************)
File(name, text, bytes) == [name |-> name, text |-> text, bytes |-> bytes]

\* <svg width='100' height='50'><metadata/><rect x="1.23456"/></svg>
PlainDoc ==
    Markup("wellformed",
      << Element("svg", 0, <<Attr("width", <<"1", "0", "0">>, "sq"), Attr("height", <<"5", "0">>, "sq")>>),
         Element("metadata", 1, <<>>),
         Element("rect", 1, <<Attr("x", <<"1", ".", "2", "3", "4", "5", "6">>, "dq")>>) >>)

\* <svg onload="x"><script>alert(1)</script><g onclick="x"><iframe/></g></svg>
ScriptedDoc ==
    Markup("wellformed",
      << Element("svg", 0, <<Attr("onload", <<"x">>, "dq")>>),
         TextElement("script", 1, <<>>, "alert(1)"),
         Element("g", 1, <<Attr("onclick", <<"x">>, "dq")>>),
         Element("iframe", 2, <<>>) >>)

\* <svg width="10" height="10"><rect class="a" ...  cut off after the rect
TruncatedDoc ==
    Markup("truncated",
      << Element("svg", 0, <<Attr("width", <<"1", "0">>, "dq"), Attr("height", <<"1", "0">>, "dq")>>),
         Element("rect", 1, <<Attr("class", <<"a">>, "dq")>>) >>)

\* <svg width="10   cut off inside the first tag
TruncatedTag == Markup("truncated", <<>>)

\* a document whose root is a script element: nothing is left by the filter
ScriptRootDoc == Markup("wellformed", <<TextElement("script", 0, <<>>, "alert(1)")>>)

\* <g><rect/></g>: well-formed, the root is not svg
GroupRootDoc ==
    Markup("wellformed", <<Element("g", 0, <<>>), Element("rect", 1, <<>>)>>)

\* a plot with a stylesheet, a clip path and a gradient referenced by identifier
PlotDoc ==
    Markup("wellformed",
      << Element("svg", 0, <<Attr("viewBox", <<"0", " ", "0", " ", "4", " ", "3">>, "dq")>>),
         StyleElement(1, << <<<<".", "a">>, << <<"fill", <<"r", "e", "d">>>>, <<"display", <<"n", "o", "n", "e">>>> >> >> >>),
         Element("clipPath", 1, <<Attr("id", <<"c">>, "dq")>>),
         Element("rect", 2, <<>>),
         Element("linearGradient", 1, <<Attr("id", <<"g", "r", "a", "d", "i", "e", "n", "t", "-", "l", "o", "n", "g">>, "dq")>>),
         Element("g", 1, <<Attr("clip-path", <<"u", "r", "l", "(", "#", "c", ")">>, "dq"), Attr("class", <<"a">>, "dq")>>),
         TextElement("text", 2, <<Attr("font-family", <<"'", "N", "i", "m", "b", "u", "s", " ", "S", "a", "n", "s", "'">>, "dq"),
                                  Attr("fill", <<"u", "r", "l", "(", "#", "g", "r", "a", "d", "i", "e", "n", "t", "-", "l", "o", "n", "g", ")">>, "dq")>>, "t") >>)

\* <svg><path d="M0.1234.5678"/></svg>: path data with two adjacent decimals
PathDoc ==
    Markup("wellformed",
      << Element("svg", 0, <<>>), Element("path", 1, <<Attr("d", <<"M", "0", ".", "1", "2", "3", "4", ".", "5", "6", "7", "8">>, "dq")>>) >>)

\* <svg><rect x="v" width="10" height="10"/></svg>
CoordDoc(v) ==
    Markup("wellformed",
      << Element("svg", 0, <<>>),
         Element("rect", 1, <<Attr("x", v, "dq"), Attr("width", <<"1", "0">>, "dq"),
                              Attr("height", <<"1", "0">>, "dq")>>) >>)

SampleDocs ==
    { PlainDoc, ScriptedDoc, TruncatedTag, ScriptRootDoc, GroupRootDoc,
      CoordDoc(<<"1", ".", "2", "3", "4", "5", "6">>) }

SampleBytes == << 77, 0, 255, 16 >>

SampleFiles ==
    { File(<<"a", ".", "s", "v", "g">>, d, <<>>) : d \in SampleDocs }
    \cup { File(<<"B", ".", "S", "V", "G">>, PlotDoc, <<>>), File(<<"s", "v", "g">>, TruncatedDoc, <<>>) }
    \cup { File(<<"c", ".", "e", "m", "f">>, NoText, SampleBytes), File(<<"d", ".", "p", "n", "g">>, NoText, <<137, 80>>) }

SampleFilenames == { <<>>, <<<<"m", "y", " ", " ", "p", "l", "o", "t", ".", ".", "v", "1", ".">>>> }

Requests ==
    { [multipart |-> TRUE, files |-> fs] :
          fs \in SeqsUpTo(SampleFiles, MaxFiles) }
    \cup { [multipart |-> FALSE, files |-> <<>>] }

Init ==
    /\ request \in Requests
    /\ pc = "start"
    /\ index = 0
    /\ svgContent = NoText
    /\ level = "compatible"
    /\ processedSvg = NoText
    /\ sanitizeError = ""
    /\ svgoError = FALSE
    /\ slides = <<>>
    /\ response = NoResponse
    /\ FitIdle
    /\ IdsIdle
    /\ UnitsIdle

ErrorResponse(status, error) ==
    [status |-> status, error |-> error, filename |-> <<>>, pptx |-> <<>>]

\* the name of the attachment, for searchParams.get('filename') || 'converted-presentation'
rawFilename(param) == IF param = <<>> \/ param[1] = <<>> THEN DefaultFilename ELSE param[1]

finalFilename(param) == sanitizeFilename(rawFilename(param)) \o <<".", "p", "p", "t", "x">>

\* request.formData() raises for a body that is not multipart: the catch block
ParseFailed ==
    /\ pc = "start"
    /\ ~request.multipart
    /\ response' = ErrorResponse(500, "Failed to convert files to PPTX")
    /\ pc' = "done"
    /\ UNCHANGED <<request, index, svgContent, level, processedSvg, sanitizeError, svgoError,
                   slides, fitVars, idsVars, unitVars>>

NoFiles ==
    /\ pc = "start"
    /\ request.multipart
    /\ request.files = <<>>
    /\ response' = ErrorResponse(400, "No files uploaded")
    /\ pc' = "done"
    /\ UNCHANGED <<request, index, svgContent, level, processedSvg, sanitizeError, svgoError,
                   slides, fitVars, idsVars, unitVars>>

Begin ==
    /\ pc = "start"
    /\ request.multipart
    /\ request.files # <<>>
    /\ index' = 1
    /\ pc' = "file"
    /\ UNCHANGED <<request, svgContent, level, processedSvg, sanitizeError, svgoError,
                   slides, response, fitVars, idsVars, unitVars>>

\* the end of an iteration of the for loop
NextFile ==
    /\ index' = index + 1
    /\ pc' = IF index = Len(request.files) THEN "write" ELSE "file"
    /\ svgContent' = NoText
    /\ processedSvg' = NoText
    /\ sanitizeError' = ""
    /\ svgoError' = FALSE

\* an svg file: a slide is added, the text decoded, the options chosen
StartSvg ==
    /\ pc = "file"
    /\ fileExtension(request.files[index].name) = <<"s", "v", "g">>
    /\ slides' = addSlide(slides)
    /\ svgContent' = request.files[index].text
    /\ level' = processingLevel(request.files[index].text)
    /\ processedSvg' = request.files[index].text
    /\ pc' = "sanitize"
    /\ UNCHANGED <<request, index, sanitizeError, svgoError, response, fitVars, idsVars, unitVars>>

\* processSvgForPptx, step 1
Sanitize ==
    /\ pc = "sanitize"
    /\ \E outcome \in SanitizeOutcomes :
          IF outcome = "raised"
          THEN /\ pc' = "fallback"
               /\ UNCHANGED <<processedSvg, sanitizeError>>
          ELSE /\ pc' = "optimize"
               /\ processedSvg' = sanitizeSvgForPowerPoint(processedSvg, outcome = "caught")
               /\ sanitizeError' = sanitizeErrorOf(processedSvg, outcome = "caught")
    /\ UNCHANGED <<request, index, svgContent, level, svgoError, slides, response,
                   fitVars, idsVars, unitVars>>

\* processSvgForPptx, step 2: the result of optimize, or the sanitized version
Optimize ==
    /\ pc = "optimize"
    /\ \E svgoRaised \in BOOLEAN :
          /\ processedSvg' = OptimizedOrSanitized(processedSvg, level, svgoRaised)
          /\ svgoError' = svgoRaised
    /\ pc' = "finalize"
    /\ UNCHANGED <<request, index, svgContent, level, sanitizeError, slides, response,
                   fitVars, idsVars, unitVars>>

\* processSvgForPptx, step 3; it raises when optimize handed back no data
Finalize ==
    /\ pc = "finalize"
    /\ \E raised \in BOOLEAN :
          IF raised
          THEN /\ pc' = "fallback"
               /\ UNCHANGED processedSvg
          ELSE /\ pc' = "place"
               /\ processedSvg' = ensureBasicSvgCompatibility(processedSvg)
    /\ UNCHANGED <<request, index, svgContent, level, sanitizeError, svgoError, slides,
                   response, fitVars, idsVars, unitVars>>

\* processSvgForPptx, the catch block
Fallback ==
    /\ pc = "fallback"
    /\ processedSvg' = CatchProcess(svgContent)
    /\ pc' = "place"
    /\ UNCHANGED <<request, index, svgContent, level, sanitizeError, svgoError, slides,
                   response, fitVars, idsVars, unitVars>>

\* calculateOptimalImageSize and slide.addImage for the processed document
PlaceSvg ==
    /\ pc = "place"
    /\ slides' = addImage(slides,
                     Image(SvgDataUri(processedSvg),
                           calculateOptimalImageSize(processedSvg, selectedLayout)))
    /\ NextFile
    /\ UNCHANGED <<request, level, response, fitVars, idsVars, unitVars>>

\* an emf file: a slide with the encoded bytes, placed as a 1600x900 drawing
ProcessEmf ==
    /\ pc = "file"
    /\ fileExtension(request.files[index].name) = <<"e", "m", "f">>
    /\ \E raised \in BOOLEAN :
          slides' = addImage(addSlide(slides),
                        Image(processEmfForPptx(request.files[index].bytes, raised).data,
                              calculateOptimalImageSize(EmfVirtualSvg, selectedLayout)))
    /\ NextFile
    /\ UNCHANGED <<request, level, response, fitVars, idsVars, unitVars>>

\* any other extension: the slide is added and nothing is put on it
OtherFile ==
    /\ pc = "file"
    /\ fileExtension(request.files[index].name) \notin {<<"s", "v", "g">>, <<"e", "m", "f">>}
    /\ slides' = addSlide(slides)
    /\ NextFile
    /\ UNCHANGED <<request, level, response, fitVars, idsVars, unitVars>>

\* pptx.write and the response
Write ==
    /\ pc = "write"
    /\ \E param \in SampleFilenames :
          response' = [status |-> 200, error |-> "",
                       filename |-> finalFilename(param), pptx |-> slides]
    /\ pc' = "done"
    /\ UNCHANGED <<request, index, svgContent, level, processedSvg, sanitizeError, svgoError,
                   slides, fitVars, idsVars, unitVars>>

Next ==
    \/ ParseFailed
    \/ NoFiles
    \/ Begin
    \/ StartSvg
    \/ Sanitize
    \/ Optimize
    \/ Finalize
    \/ Fallback
    \/ PlaceSvg
    \/ ProcessEmf
    \/ OtherFile
    \/ Write

Spec == Init /\ [][Next]_vars

(***************************************************************************)
(* Claims about processSvgForPptx, sanitize and POST.                      *)
(***************************************************************************)
HasForbiddenContent(text) ==
    \/ \E i \in 1..Len(text.els) : text.els[i].tag \in FORBID_TAGS
    \/ \E i \in 1..Len(AttrOccurrences(text.els)) :
           AttrOccurrences(text.els)[i].name \in FORBID_ATTR

\* C7: the document processSvgForPptx returns (the one handed to the slide
\* writer at "place"), on every return path, contains no script, iframe, object,
\* embed or link element and no onclick/onload/onerror/onmouseover attribute.
C7_NoScriptableContent == pc = "place" => ~HasForbiddenContent(processedSvg)

\* the 400x300 diagnostic document: well-formed, one svg root with these values
IsDiagnostic(text) ==
    /\ IsXmlDocument(text)
    /\ text.els[1].tag = "svg"
    /\ getAttribute(text.els[1], "width") = <<<<"4", "0", "0">>>>
    /\ getAttribute(text.els[1], "height") = <<<<"3", "0", "0">>>>
    /\ getAttribute(text.els[1], "viewBox") = <<<<"0", " ", "0", " ", "4", "0", "0", " ", "3", "0", "0">>>>

\* the input itself is an XML document whose root is an svg element
IsSvgDocumentText(text) == IsXmlDocument(text) /\ text.els[1].tag = "svg"

\* C8 as stated: for every input that is not itself a parseable document with an
\* svg root (truncated input included), sanitize returns the diagnostic document.
C8_Original ==
    (pc = "optimize" /\ ~IsSvgDocumentText(svgContent)) => IsDiagnostic(processedSvg)

\* C8: for every input of which the security filter leaves no XML document with
\* an svg root (unparseable text, a tag cut off before its end, a root the
\* filter removes, a root that is not svg, several roots), sanitize returns the
\* well-formed diagnostic svg with width 400, height 300, viewBox "0 0 400 300".
C8_DiagnosticForInvalidDocument ==
    (pc = "optimize" /\ ~IsSvgDocumentText(securitySanitize(svgContent)))
        => IsDiagnostic(processedSvg)

C8_Witness ==
    /\ pc = "optimize"
    /\ svgContent \in {TruncatedTag, ScriptRootDoc, GroupRootDoc}
    /\ IsDiagnostic(processedSvg)

IsAcceptedFile(file) == fileExtension(file.name) \in {<<"s", "v", "g">>, <<"e", "m", "f">>}

\* the slide holds one image, and it is one that the pipeline makes of the file
CarriesImageOf(slide, file) ==
    /\ Len(slide) = 1
    /\ IF fileExtension(file.name) = <<"s", "v", "g">>
       THEN /\ slide[1].data.mime = "image/svg+xml"
            /\ slide[1].data.doc \in ProcessOutcomes(file.text, processingLevel(file.text))
       ELSE slide[1].data \in {processEmfForPptx(file.bytes, raised).data : raised \in BOOLEAN}

\* the handler has answered 200 with one slide per file, in the order of upload
SucceededInOrder ==
    /\ response.status = 200
    /\ Len(response.pptx) = Len(request.files)
    /\ \A i \in 1..Len(request.files) : CarriesImageOf(response.pptx[i], request.files[i])

\* no response is an error
NeverAborts == response.status \in {0, 200}

\* C9 as stated: for every batch of n >= 1 files the conversion succeeds with n
\* slides, the i-th carrying the image of the i-th file.
C9_Original ==
    (request.multipart /\ request.files # <<>>)
        => NeverAborts /\ (pc = "done" => SucceededInOrder)

\* C9: for every batch of n >= 1 files with extension svg or emf, malformed
\* markup included, the conversion succeeds with n slides, the i-th carrying the
\* image of the i-th file; no file's processing failure aborts the batch.
C9_OneSlidePerFileInOrder ==
    (/\ request.multipart
     /\ request.files # <<>>
     /\ \A i \in 1..Len(request.files) : IsAcceptedFile(request.files[i]))
        => NeverAborts /\ (pc = "done" => SucceededInOrder)

C9_Witness ==
    /\ pc = "done"
    /\ Len(request.files) = 2
    /\ fileExtension(request.files[1].name) = <<"e", "m", "f">>
    /\ request.files[2].text = TruncatedTag
    /\ SucceededInOrder
    /\ IsDiagnostic(response.pptx[2][1].data.doc)

(***************************************************************************)
(* The sanitizer over several calls: sanitizeSvgForPowerPoint (a new       *)
(* SVGSanitizer for each call) and sanitize on one SVGSanitizer that is    *)
(* kept, applied to a document and to the outputs of earlier calls.        *)
(***************************************************************************)
MaxCalls == 2

SampleCoords == { <<"1", ".", "2", "3", "4", "5", "6">>, <<"1", ".", "9", "9", "5">>, <<"2", ".", "5">>, <<"1", "e", "-", "7">>, <<"1", "0", ",", "0", ".", "1", "2", "5", " ", "3", ".", "0", "6", "2", "5">> }

SanDocs ==
    { Markup("wellformed", d) : d \in IdsDocs }
    \cup { CoordDoc(v) : v \in SampleCoords }
    \cup { PathDoc, PlainDoc, ScriptedDoc, TruncatedDoc, TruncatedTag, ScriptRootDoc,
           GroupRootDoc, PlotDoc }

SanInit ==
    /\ sanInput \in SanDocs
    /\ sanCounter = 0
    /\ sanCalls = <<>>
    /\ FitIdle
    /\ IdsIdle
    /\ PostIdle
    /\ StepIdle
    /\ EmfIdle
    /\ MoreIdle

\* the texts a call can be given: the document, or what an earlier call returned
SanTexts == {sanInput} \cup {sanCalls[i].output : i \in 1..Len(sanCalls)}

Call(fresh, input, output) == [fresh |-> fresh, input |-> input, output |-> output]

\* sanitizeSvgForPowerPoint(text)
SanitizeFresh ==
    /\ Len(sanCalls) < MaxCalls
    /\ \E text \in SanTexts :
          sanCalls' = Append(sanCalls,
                             Call(TRUE, text, sanitizeSvgForPowerPoint(text, FALSE)))
    /\ UNCHANGED <<sanInput, sanCounter, fitVars, idsVars, postVars, stepVars, emfVars, moreVars>>

\* sanitizer.sanitize(text) on the SVGSanitizer that is kept
SanitizeReused ==
    /\ Len(sanCalls) < MaxCalls
    /\ \E text \in SanTexts :
          /\ sanCalls' = Append(sanCalls,
                                Call(FALSE, text, sanitize(text, FALSE, sanCounter)))
          /\ sanCounter' = CounterAfterSanitize(text, FALSE, sanCounter)
    /\ UNCHANGED <<sanInput, fitVars, idsVars, postVars, stepVars, emfVars, moreVars>>

SanNext == SanitizeFresh \/ SanitizeReused

SpecSan == SanInit /\ [][SanNext]_vars

\* C11: sanitizeSvgForPowerPoint applied to an output of sanitizeSvgForPowerPoint
\* returns that output unchanged.
C11_Idempotent ==
    \A i, j \in 1..Len(sanCalls) :
        (/\ sanCalls[i].fresh
         /\ sanCalls[j].fresh
         /\ sanCalls[j].input = sanCalls[i].output)
            => sanCalls[j].output = sanCalls[j].input

\* C17: the output of a call depends only on the text it is given: two calls on
\* the same text return the same document, whatever was sanitized before and
\* whether or not the SVGSanitizer is one that has been used before.
C17_DependsOnlyOnContent ==
    \A i, j \in 1..Len(sanCalls) :
        sanCalls[i].input = sanCalls[j].input => sanCalls[i].output = sanCalls[j].output

\* C12: when the optimization step raised, what processSvgForPptx returns is the
\* normalizer's output (the document held at "finalize") with nothing inserted,
\* changed or removed.
C12_UnmodifiedWhenSvgoFails ==
    [][(pc = "finalize" /\ svgoError /\ pc' = "place") => processedSvg' = processedSvg]_vars

\* a clipPath element, the word clipPath in an attribute value, or a style element
MentionsClipPathOrStyle(text) ==
    \/ \E i \in 1..Len(text.els) : text.els[i].tag \in {"clipPath", "style"}
    \/ \E i \in 1..Len(text.els) : \E j \in 1..Len(text.els[i].attrs) :
           Includes(text.els[i].attrs[j].value, <<"c", "l", "i", "p", "P", "a", "t", "h">>)

UnspecifiedLevels == {"", "compatible", "default", "unknown"}

MaxBytes == 4

SampleByteValues == {0, 77, 128, 255}

EmfInit ==
    /\ emfBuffer \in SeqsUpTo(SampleByteValues, MaxBytes)
    /\ emfResult = NoEmfResult
    /\ FitIdle /\ IdsIdle /\ PostIdle /\ SanIdle /\ StepIdle /\ MoreIdle

\* the try block returns
EncodeEmf ==
    /\ emfResult = NoEmfResult
    /\ emfResult' = processEmfForPptx(emfBuffer, FALSE)
    /\ UNCHANGED <<emfBuffer, fitVars, idsVars, postVars, sanVars, stepVars, moreVars>>

\* the try block raises and the catch block returns
EncodeEmfFailed ==
    /\ emfResult = NoEmfResult
    /\ emfResult' = processEmfForPptx(emfBuffer, TRUE)
    /\ UNCHANGED <<emfBuffer, fitVars, idsVars, postVars, sanVars, stepVars, moreVars>>

EmfNext == EncodeEmf \/ EncodeEmfFailed

SpecEmf == EmfInit /\ [][EmfNext]_vars

\* the value of a base64 digit
Base64Value(c) == (CHOOSE n \in 1..64 : Base64Alphabet[n] = c) - 1

IsBase64Text(s) ==
    /\ Len(s) % 4 = 0
    /\ \A i \in 1..Len(s) :
          \/ \E n \in 1..64 : Base64Alphabet[n] = s[i]
          \/ s[i] = "=" /\ i > Len(s) - 2 /\ \A j \in i..Len(s) : s[j] = "="

\* base64 decoding of a padded text
RECURSIVE Base64Decode(_)
Base64Decode(s) ==
    IF s = <<>> THEN <<>>
    ELSE LET a == Base64Value(s[1])
             b == Base64Value(s[2])
         IN  IF s[3] = "=" THEN <<a * 4 + b \div 16>>
             ELSE IF s[4] = "="
             THEN <<a * 4 + b \div 16, (b % 16) * 16 + Base64Value(s[3]) \div 4>>
             ELSE <<a * 4 + b \div 16,
                    (b % 16) * 16 + Base64Value(s[3]) \div 4,
                    (Base64Value(s[3]) % 4) * 64 + Base64Value(s[4])>>
                  \o Base64Decode(SubSeq(s, 5, Len(s)))

\* the placeholder of the catch block: a 400x300 svg with a rectangle and the label
IsEmfPlaceholder(data) ==
    /\ data.mime = "image/svg+xml"
    /\ data.base64 = <<>>
    /\ IsDiagnostic(data.doc)
    /\ getAttribute(data.doc.els[1], "viewBox") = <<<<"0", " ", "0", " ", "4", "0", "0", " ", "3", "0", "0">>>>
    /\ \E i \in 1..Len(data.doc.els) : data.doc.els[i].tag = "rect"
    /\ \E i \in 1..Len(data.doc.els) : data.doc.els[i].text = "EMF Processing Error"

\* C14: processEmfForPptx always returns. What it returns is either kind emf with
\* an image/x-emf data URI whose base64 payload decodes to exactly the bytes of
\* the buffer, or (the encoding failed) kind svg with the fixed 400x300
\* placeholder as an image/svg+xml data URI.
C14_EmfPassthrough ==
    emfResult # NoEmfResult =>
        \/ /\ emfResult.type = "emf"
           /\ emfResult.data.mime = "image/x-emf"
           /\ IsBase64Text(emfResult.data.base64)
           /\ Base64Decode(emfResult.data.base64) = emfBuffer
        \/ /\ emfResult.type = "svg"
           /\ IsEmfPlaceholder(emfResult.data)

C14_Witness ==
    /\ emfResult.type = "emf"
    /\ Len(emfBuffer) = MaxBytes - 2
    /\ emfBuffer[1] = 255

\* C15 as stated: when a step of the normalizer raised, what the normalizer
\* returns is the original input with only the namespace and a viewBox added,
\* and the request does not fail.
C15_Original ==
    sanitizeError = "error" =>
        /\ NeverAborts
        /\ pc = "optimize" => processedSvg = ensureBasicSvgCompatibility(svgContent)

\* C15: when a step of the normalizer raised, the normalizer catches the
\* exception and returns the 400x300 diagnostic document with the message of the
\* exception, and the request does not fail.
C15_DiagnosticWhenStepRaises ==
    sanitizeError = "error" =>
        /\ NeverAborts
        /\ pc = "optimize" =>
              /\ IsDiagnostic(processedSvg)
              /\ \E i \in 1..Len(processedSvg.els) :
                    processedSvg.els[i].text = "Sanitization failed: error"

C15_Witness ==
    /\ pc = "optimize"
    /\ sanitizeError = "error"
    /\ svgContent = PlainDoc
    /\ IsDiagnostic(processedSvg)

\* the text starts with <svg xmlns="http://www.w3.org/2000/svg"
BeginsWithNamespace(text) ==
    /\ text.els # <<>>
    /\ text.els[1].tag = "svg"
    /\ text.els[1].attrs # <<>>
    /\ text.els[1].attrs[1] = Attr("xmlns", SvgNamespace, "dq")

NamespaceDeclarations(e) == {j \in 1..Len(e.attrs) : e.attrs[j].name = "xmlns"}

\* C16: the document processSvgForPptx returns (the one held at "place"), on
\* every return path, is well-formed XML, begins with
\* <svg xmlns="http://www.w3.org/2000/svg" and declares that namespace exactly
\* once on its root element.
C16_WellFormedWithNamespace ==
    pc = "place" =>
        /\ IsXmlDocument(processedSvg)
        /\ BeginsWithNamespace(processedSvg)
        /\ Cardinality(NamespaceDeclarations(processedSvg.els[1])) = 1

(***************************************************************************)
(* The steps of the normalizer on their own: one parsed document, one      *)
(* step applied to it.                                                     *)
(***************************************************************************)
MaxParts == 2

\* root elements: plain, clipped, and with a class and a fill of its own
StepRoots ==
    { Element("svg", 0, <<>>),
      Element("svg", 0, <<Attr("clip-path", <<"u", "r", "l", "(", "#", "c", ")">>, "dq")>>),
      Element("svg", 0, <<Attr("class", <<"a">>, "dq"), Attr("fill", <<"g", "r", "e", "e", "n">>, "dq")>>),
      \* <svg viewBox="0 0 10.12345 5" font-family="Nimbus Sans">
      Element("svg", 0, <<Attr("viewBox", <<"0", " ", "0", " ", "1", "0", ".", "1", "2", "3", "4", "5", " ", "5">>, "dq"),
                          Attr("font-family", <<"N", "i", "m", "b", "u", "s", " ", "S", "a", "n", "s">>, "dq")>>),
      \* <svg width="100%" height="100%" viewBox="0 0 100 50">
      Element("svg", 0, <<Attr("width", <<"1", "0", "0", "%">>, "dq"), Attr("height", <<"1", "0", "0", "%">>, "dq"),
                          Attr("viewBox", <<"0", " ", "0", " ", "1", "0", "0", " ", "5", "0">>, "dq")>>),
      \* <svg width="100%" height="100%" viewBox="0,0,100,50">
      Element("svg", 0, <<Attr("width", <<"1", "0", "0", "%">>, "dq"), Attr("height", <<"1", "0", "0", "%">>, "dq"),
                          Attr("viewBox", <<"0", ",", "0", ",", "1", "0", "0", ",", "5", "0">>, "dq")>>),
      \* <svg width="100px" height="50">
      Element("svg", 0, <<Attr("width", <<"1", "0", "0", "p", "x">>, "dq"), Attr("height", <<"5", "0">>, "dq")>>) }

\* children of the root, each with its own descendants
StepParts ==
    { \* <style>.a { fill: red; display: none }</style>
      <<StyleElement(1, << <<<<".", "a">>, << <<"fill", <<"r", "e", "d">>>>, <<"display", <<"n", "o", "n", "e">>>> >> >> >>)>>,
      \* <style>rect { fill: blue; stroke: black } .a { stroke-width: 2 }</style>
      <<StyleElement(1, << <<<<"r", "e", "c", "t">>, << <<"fill", <<"b", "l", "u", "e">>>>, <<"stroke", <<"b", "l", "a", "c", "k">>>> >> >>,
                           <<<<".", "a">>, << <<"stroke-width", <<"2">>>> >> >> >>)>>,
      \* <clipPath id="c"><rect/></clipPath>
      <<Element("clipPath", 1, <<Attr("id", <<"c">>, "dq")>>), Element("rect", 2, <<>>)>>,
      \* <g clip-path="url(#c)" class="a"><rect/></g>
      <<Element("g", 1, <<Attr("clip-path", <<"u", "r", "l", "(", "#", "c", ")">>, "dq"), Attr("class", <<"a">>, "dq")>>),
        Element("rect", 2, <<>>)>>,
      \* <rect class="a b" fill="green"/>
      <<Element("rect", 1, <<Attr("class", <<"a", " ", "b">>, "dq"), Attr("fill", <<"g", "r", "e", "e", "n">>, "dq")>>)>>,
      \* <rect clip-path=""/>
      <<Element("rect", 1, <<Attr("clip-path", <<>>, "dq")>>)>>,
      \* <rect x="1.23456" stroke-width="1.23456"/>
      <<Element("rect", 1, <<Attr("x", <<"1", ".", "2", "3", "4", "5", "6">>, "dq"), Attr("stroke-width", <<"1", ".", "2", "3", "4", "5", "6">>, "dq")>>)>>,
      \* <style>text { font-family: Nimbus Sans }</style>
      <<StyleElement(1, << <<<<"t", "e", "x", "t">>, << <<"font-family", <<"N", "i", "m", "b", "u", "s", " ", "S", "a", "n", "s">>>> >> >> >>)>>,
      \* <text font-family="'DejaVu Serif'">t</text>
      <<TextElement("text", 1, <<Attr("font-family", <<"'", "D", "e", "j", "a", "V", "u", " ", "S", "e", "r", "i", "f", "'">>, "dq")>>, "t")>>,
      \* <text>t</text><text font-family="Helvetica">t</text>
      <<TextElement("text", 1, <<>>, "t"),
        TextElement("text", 1, <<Attr("font-family", <<"H", "e", "l", "v", "e", "t", "i", "c", "a">>, "dq")>>, "t")>> }

RECURSIVE Flatten(_)
Flatten(parts) == IF parts = <<>> THEN <<>> ELSE parts[1] \o Flatten(Tail(parts))

StepDocs ==
    { <<root>> \o Flatten(parts) : root \in StepRoots, parts \in SeqsUpTo(StepParts, MaxParts) }

StepInit ==
    /\ stepDoc \in StepDocs
    /\ stepName = ""
    /\ stepResult = <<>>
    /\ FitIdle /\ IdsIdle /\ PostIdle /\ SanIdle /\ EmfIdle /\ MoreIdle

\* this.removeClipPaths(svgElement)
RemoveClipPaths ==
    /\ stepName = ""
    /\ stepName' = "removeClipPaths"
    /\ stepResult' = removeClipPaths(stepDoc)
    /\ UNCHANGED <<stepDoc, fitVars, idsVars, postVars, sanVars, emfVars, moreVars>>

\* this.inlineCssStyles(svgElement)
InlineCssStyles ==
    /\ stepName = ""
    /\ stepName' = "inlineCssStyles"
    /\ stepResult' = inlineCssStyles(stepDoc)
    /\ UNCHANGED <<stepDoc, fitVars, idsVars, postVars, sanVars, emfVars, moreVars>>

\* this.optimizeCoordinates(svgElement)
OptimizeCoordinates ==
    /\ stepName = ""
    /\ stepName' = "optimizeCoordinates"
    /\ stepResult' = optimizeCoordinates(stepDoc)
    /\ UNCHANGED <<stepDoc, fitVars, idsVars, postVars, sanVars, emfVars, moreVars>>

\* this.ensureSvgAttributes(svgElement)
EnsureSvgAttributes ==
    /\ stepName = ""
    /\ stepName' = "ensureSvgAttributes"
    /\ stepResult' = ensureSvgAttributes(stepDoc)
    /\ UNCHANGED <<stepDoc, fitVars, idsVars, postVars, sanVars, emfVars, moreVars>>

\* all the steps of sanitize in their order, on a new sanitizer
NormalizeDocument ==
    /\ stepName = ""
    /\ stepName' = "normalize"
    /\ stepResult' = Normalize(stepDoc, 0)
    /\ UNCHANGED <<stepDoc, fitVars, idsVars, postVars, sanVars, emfVars, moreVars>>

StepNext ==
    \/ RemoveClipPaths
    \/ InlineCssStyles
    \/ OptimizeCoordinates
    \/ EnsureSvgAttributes
    \/ NormalizeDocument

SpecSteps == StepInit /\ [][StepNext]_vars

\* C18: after the clip-path step no element of the document, the root included,
\* carries a clip-path attribute, and no clipPath element is left.
C18_NoClipPathLeft ==
    stepName = "removeClipPaths" =>
        \A i \in 1..Len(stepResult) :
            /\ ~hasAttribute(stepResult[i], "clip-path")
            /\ stepResult[i].tag # "clipPath"

\* the elements of the document that are not style elements, in document order
NonStyleElements(els) == SelectSeq(els, LAMBDA e : e.tag # "style")

\* some rule of the document's style sheets matches the element and declares
\* the property with this value
DeclaredFor(els, e, prop, value) ==
    \E i \in 1..Len(els) : \E r \in 1..Len(els[i].css) :
        /\ SelectorMatches(e, els[i].css[r][1])
        /\ \E d \in 1..Len(els[i].css[r][2]) :
              els[i].css[r][2][d] = <<prop, value>>

\* C19: after CSS inlining no style element is left, every other element is still
\* there with every attribute it carried explicitly at its old value, and every
\* attribute it has gained is an attribute of the CSS-to-attribute table whose
\* value a rule matching the element declares.
C19_ExplicitAttributesWin ==
    stepName = "inlineCssStyles" =>
        /\ \A i \in 1..Len(stepResult) : stepResult[i].tag # "style"
        /\ Len(stepResult) = Len(NonStyleElements(stepDoc))
        /\ \A k \in 1..Len(stepResult) :
              /\ stepResult[k].tag = NonStyleElements(stepDoc)[k].tag
              /\ \A j \in 1..Len(NonStyleElements(stepDoc)[k].attrs) :
                    stepResult[k].attrs[j] = NonStyleElements(stepDoc)[k].attrs[j]
              /\ \A j \in (Len(NonStyleElements(stepDoc)[k].attrs) + 1)..Len(stepResult[k].attrs) :
                    /\ stepResult[k].attrs[j].name \in SvgPresentationAttributes
                    /\ ~hasAttribute(NonStyleElements(stepDoc)[k], stepResult[k].attrs[j].name)
                    /\ DeclaredFor(stepDoc, NonStyleElements(stepDoc)[k],
                                   stepResult[k].attrs[j].name, stepResult[k].attrs[j].value)

C19_Witness ==
    /\ stepName = "inlineCssStyles"
    /\ \E k \in 1..Len(stepResult) :
          /\ ClassesOf(stepResult[k]) = {<<"a">>, <<"b">>}
          /\ getAttribute(stepResult[k], "fill") = <<<<"g", "r", "e", "e", "n">>>>
          /\ getAttribute(stepResult[k], "stroke") = <<<<"b", "l", "a", "c", "k">>>>
          /\ getAttribute(stepResult[k], "stroke-width") = <<<<"2">>>>

\* the elements up to the e-th that carry a complex identifier
ComplexUpTo(els, e) ==
    {i \in 1..e : hasAttribute(els[i], "id") /\ isComplexId(getAttribute(els[i], "id")[1])}

\* C20: after simplifyIds on a sanitizer that has generated no identifier yet,
\* the element that carried the k-th complex identifier of the document, in
\* document order and counting from 1, has the identifier "id" followed by k,
\* and every element with an identifier that is not complex has kept it.
C20_SequentialIds ==
    Simplified =>
        \A e \in 1..Len(idsDoc) :
            hasAttribute(idsDoc[e], "id") =>
                getAttribute(idsResult[e], "id") =
                    IF isComplexId(getAttribute(idsDoc[e], "id")[1])
                    THEN << <<"i", "d">> \o NatToStr(Cardinality(ComplexUpTo(idsDoc, e))) >>
                    ELSE getAttribute(idsDoc[e], "id")

\* the elements that carry the identifier
ElementsWithId(els, id) ==
    {i \in 1..Len(els) : hasAttribute(els[i], "id") /\ getAttribute(els[i], "id")[1] = id}

\* no two elements carry the same identifier
DistinctIds(els) ==
    \A i, j \in 1..Len(els) :
        (i # j /\ hasAttribute(els[i], "id") /\ hasAttribute(els[j], "id"))
            => getAttribute(els[i], "id") # getAttribute(els[j], "id")

\* C25: in a document whose identifiers are distinct, every reference that
\* pointed to an element before simplifyIds points to the same element after it.
C25_ReferenceTargetsKept ==
    (Simplified /\ DistinctIds(idsDoc)) =>
        \A e \in 1..Len(idsDoc) : \A a \in 1..Len(idsDoc[e].attrs) :
            LET before == ReferencesOf(idsDoc[e].attrs[a])
                after  == ReferencesOf(idsResult[e].attrs[a])
            IN  \A k \in 1..Len(before) :
                    before[k] \in IdentifiersOf(idsDoc)
                        => /\ k <= Len(after)
                           /\ ElementsWithId(idsResult, after[k]) = ElementsWithId(idsDoc, before[k])

\* C26: when the identifiers of the document are distinct before simplifyIds
\* they are distinct after it.
C26_IdsStayDistinct == (Simplified /\ DistinctIds(idsDoc)) => DistinctIds(idsResult)

\* whether a value still holds a decimal literal with 3 or more fractional digits
HasLongDecimal(value) == \E i \in 1..Len(value) : DecimalMatchEnd(value, i) # 0

\* C21: after the coordinate step every element, the root included, has the
\* attributes it had; each geometry attribute holds its old value with every
\* decimal literal of 3 or more fractional digits rounded to 2, and holds no such
\* literal any more; every other attribute is unchanged.
C21_CoordinatesRounded ==
    stepName = "optimizeCoordinates" =>
        /\ Len(stepResult) = Len(stepDoc)
        /\ \A e \in 1..Len(stepDoc) :
              /\ Len(stepResult[e].attrs) = Len(stepDoc[e].attrs)
              /\ \A j \in 1..Len(stepDoc[e].attrs) :
                    IF stepDoc[e].attrs[j].name \in coordinateAttributes
                    THEN /\ stepResult[e].attrs[j].value =
                               optimizeCoordinateValue(stepDoc[e].attrs[j].value)
                         /\ ~HasLongDecimal(stepResult[e].attrs[j].value)
                    ELSE stepResult[e].attrs[j] = stepDoc[e].attrs[j]

\* whether a font-family value, quotes stripped, is a key of the substitution table
IsReplaceableFont(value) == \E k \in 1..Len(fontReplacements) : fontReplacements[k][1] = StripQuotes(value)

\* the elements that the clip-path and CSS steps do not remove, in document order
KeptByNormalize(els) ==
    RemoveSubtrees(els, {i \in 1..Len(els) : els[i].tag \in {"clipPath", "style"}})

\* C22: after normalization no element of the document, the root included, has a
\* font-family whose value (quotes stripped) is a key of the substitution table,
\* whether the attribute was in the input or came from a style rule; and a
\* font-family of the input that is not a key of the table is unchanged.
C22_FontsReplaced ==
    stepName = "normalize" =>
        /\ \A e \in 1..Len(stepResult) :
              hasAttribute(stepResult[e], "font-family")
                  => ~IsReplaceableFont(getAttribute(stepResult[e], "font-family")[1])
        /\ Len(stepResult) = Len(KeptByNormalize(stepDoc))
        /\ \A e \in 1..Len(stepResult) :
              (/\ hasAttribute(KeptByNormalize(stepDoc)[e], "font-family")
               /\ ~IsReplaceableFont(getAttribute(KeptByNormalize(stepDoc)[e], "font-family")[1]))
                  => getAttribute(stepResult[e], "font-family")
                         = getAttribute(KeptByNormalize(stepDoc)[e], "font-family")

\* the k-th component of a viewBox, its numbers separated by white space or commas
ViewBoxComponent(value, k) ==
    IF k <= Len(SplitWsComma(value)) THEN parseFloat(SplitWsComma(value)[k]) ELSE NaN

\* C23: after the attribute step the root declares the SVG namespace; a root that
\* has a width and a height has a viewBox, which is "0 0 w h" when the root had
\* none; and a root whose width and height were both 100% and that had a viewBox
\* has the third and fourth components of that viewBox as its width and height.
C23_RootAttributes ==
    stepName = "ensureSvgAttributes" =>
        /\ getAttribute(stepResult[1], "xmlns") = <<SvgNamespace>>
        /\ (hasAttribute(stepDoc[1], "width") /\ hasAttribute(stepDoc[1], "height")) =>
              /\ hasAttribute(stepResult[1], "viewBox")
              /\ ~hasAttribute(stepDoc[1], "viewBox") =>
                    getAttribute(stepResult[1], "viewBox") =
                        <<ViewBoxOf(parseFloat(getAttribute(stepDoc[1], "width")[1]),
                                    parseFloat(getAttribute(stepDoc[1], "height")[1]))>>
        /\ (/\ getAttribute(stepDoc[1], "width") = <<<<"1", "0", "0", "%">>>>
            /\ getAttribute(stepDoc[1], "height") = <<<<"1", "0", "0", "%">>>>
            /\ hasAttribute(stepDoc[1], "viewBox")) =>
              /\ getAttribute(stepResult[1], "width") =
                    <<NumToStr(ViewBoxComponent(getAttribute(stepDoc[1], "viewBox")[1], 3))>>
              /\ getAttribute(stepResult[1], "height") =
                    <<NumToStr(ViewBoxComponent(getAttribute(stepDoc[1], "viewBox")[1], 4))>>

(***************************************************************************)
(* svgoConfig.ts on its own: one level, one parameter of one plugin, read   *)
(* in the table getSvgoConfig returns for the level.                        *)
(***************************************************************************)
ConfigLevels == {"conservative", "compatible", "aggressive", "", "unknown"}

\* the parameters some table sets
ConfigKeys ==
    { <<o[1], o[2]>> : o \in powerpointCompatibleConfig.overrides
                             \cup aggressiveOptimizationConfig.overrides
                             \cup conservativeConfig.overrides }

CfgInit ==
    /\ cfgLevel \in ConfigLevels
    /\ \E key \in ConfigKeys : cfgPlugin = key[1] /\ cfgParam = key[2]
    /\ cfgValue = "unread"
    /\ FitIdle /\ IdsIdle /\ PostIdle /\ SanIdle /\ StepIdle /\ EmfIdle /\ NameIdle /\ UiIdle

ReadSetting ==
    /\ cfgValue = "unread"
    /\ cfgValue' = SettingOf(getSvgoConfig(cfgLevel), cfgPlugin, cfgParam)
    /\ UNCHANGED <<cfgLevel, cfgPlugin, cfgParam, fitVars, idsVars, postVars, sanVars,
                   stepVars, emfVars, nameVars, uiVars>>

CfgNext == ReadSetting

SpecCfg == CfgInit /\ [][CfgNext]_vars

IsPrecisionParam(param) == param \in {"floatPrecision", "transformPrecision"}

\* the numeric precision (cleanupNumericValues) of a table
NumericPrecision(config) == SettingOf(config, "cleanupNumericValues", "floatPrecision")

PrecisionsAre321 ==
    /\ NumericPrecision(conservativeConfig) = "3" /\ conservativeConfig.floatPrecision = 3
    /\ NumericPrecision(powerpointCompatibleConfig) = "2"
    /\ powerpointCompatibleConfig.floatPrecision = 2
    /\ NumericPrecision(aggressiveOptimizationConfig) = "1"
    /\ aggressiveOptimizationConfig.floatPrecision = 1

\* C24 as stated: what the aggressive table gives a parameter is what the
\* compatible table gives it, except that a precision the compatible table sets
\* is 1 and that removing the viewBox and the dimensions is not switched off; the
\* precisions of the three tables are 3, 2 and 1.
C24_Original ==
    /\ PrecisionsAre321
    /\ (cfgLevel = "aggressive" /\ cfgValue # "unread") =>
          IF cfgPlugin \in {"removeViewBox", "removeDimensions"}
          THEN cfgValue # "false"
          ELSE IF /\ IsPrecisionParam(cfgParam)
                  /\ SettingOf(powerpointCompatibleConfig, cfgPlugin, cfgParam) # "default"
               THEN cfgValue = "1"
               ELSE cfgValue = SettingOf(powerpointCompatibleConfig, cfgPlugin, cfgParam)

\* C24: the aggressive table sets three things only: numeric precision 1, and
\* removeViewBox and removeDimensions switched off; every other parameter,
\* those the compatible table sets for colours, transforms, path data and
\* stroke/fill included, is left at the optimizer's default.  The numeric
\* precisions of the three tables are 3, 2 and 1.
C24_AggressiveTable ==
    /\ PrecisionsAre321
    /\ (cfgLevel = "aggressive" /\ cfgValue # "unread") =>
          cfgValue =
              CASE cfgPlugin = "cleanupNumericValues" /\ cfgParam = "floatPrecision" -> "1"
                [] cfgPlugin \in {"removeViewBox", "removeDimensions"} /\ cfgParam = "enabled"
                       -> "false"
                [] OTHER -> "default"

C24_Witness ==
    /\ cfgLevel = "aggressive"
    /\ cfgPlugin = "convertTransform"
    /\ cfgParam = "collapseIntoOne"
    /\ cfgValue = "default"
    /\ SettingOf(powerpointCompatibleConfig, cfgPlugin, cfgParam) = "false"

(***************************************************************************)
(* route.ts: sanitizeFilename on its own.  nameParam is the filename         *)
(* parameter of the URL: <<>> when absent, <<name>> when present.           *)
(***************************************************************************)
MaxNameLen == 3

NameChars == {"a", ".", " ", "<"}

\* a name that is two characters short of the length limit
LongStem == [i \in 1..(MaxFilenameLength - 2) |-> "a"]

SampleNames == SeqsUpTo(NameChars, MaxNameLen) \cup { LongStem \o s : s \in SeqsUpTo(NameChars, MaxNameLen) }

NameInit ==
    /\ nameParam \in { <<>> } \cup { <<s>> : s \in SampleNames }
    /\ nameResult = <<>>
    /\ FitIdle /\ IdsIdle /\ PostIdle /\ SanIdle /\ StepIdle /\ EmfIdle /\ CfgIdle /\ UiIdle

SanitizeName ==
    /\ nameResult = <<>>
    /\ nameResult' = sanitizeFilename(rawFilename(nameParam))
    /\ UNCHANGED <<nameParam, fitVars, idsVars, postVars, sanVars, stepVars, emfVars,
                   cfgVars, uiVars>>

NameNext == SanitizeName

SpecName == NameInit /\ [][NameNext]_vars

\* the name is made of forbidden characters and dots only
NothingLeft(name) == \A i \in 1..Len(name) : name[i] \in ForbiddenFilenameChars \cup {"."}

\* C28: the sanitized filename is non-empty, at most 100 characters long, has no
\* forbidden character, no white space and no two dots in a row, and neither
\* starts nor ends with a dot; an absent parameter gives converted-presentation.
C28_SafeFilename ==
    nameResult # <<>> =>
        /\ Len(nameResult) <= MaxFilenameLength
        /\ \A i \in 1..Len(nameResult) :
              /\ nameResult[i] \notin ForbiddenFilenameChars
              /\ ~IsSpace(nameResult[i])
              /\ (i > 1 /\ nameResult[i] = ".") => nameResult[i - 1] # "."
        /\ nameResult[1] # "."
        /\ nameResult[Len(nameResult)] # "."
        /\ nameParam = <<>> => nameResult = DefaultFilename
        /\ (nameParam # <<>> /\ NothingLeft(nameParam[1])) => nameResult = DefaultFilename

(***************************************************************************)
(* page.tsx: the upload page.  A listed file is its extension and its size  *)
(* in bytes; uiError is "" for null; uiPc is the await convertToPptx is     *)
(* suspended at ("idle" when no conversion runs); timers is the number of   *)
(* pending setTimeout callbacks.                                            *)
(***************************************************************************)
MAX_FILE_COUNT == 10

MAX_SINGLE_FILE_SIZE == 2 * 1024 * 1024

MAX_TOTAL_UPLOAD_SIZE == 4 * 1024 * 1024

ComplexSvgSize == 50000

MaxDrop == 2

MaxTimers == 2

RECURSIVE getTotalUploadSize(_)
getTotalUploadSize(items) ==
    IF items = <<>> THEN 0 ELSE Head(items).size + getTotalUploadSize(Tail(items))

\* the files a drop is made of
DroppableFiles ==
    { [ext |-> "svg", size |-> 1],
      [ext |-> "SVG", size |-> MAX_SINGLE_FILE_SIZE],
      [ext |-> "emf", size |-> MAX_SINGLE_FILE_SIZE + 1] }

\* errorMessage = errorMessage ?? message
OrMessage(errorMessage, message) == IF errorMessage = "" THEN message ELSE errorMessage

\* the for loop of the updater: continue for a file over the single-file limit,
\* break at the first file that would exceed the total
RECURSIVE AddFiles(_, _, _)
AddFiles(next, rest, errorMessage) ==
    IF rest = <<>> THEN [files |-> next, error |-> errorMessage]
    ELSE LET file == Head(rest)
         IN  IF file.size > MAX_SINGLE_FILE_SIZE
             THEN AddFiles(next, Tail(rest), OrMessage(errorMessage, "fileTooLarge"))
             ELSE IF getTotalUploadSize(next) + file.size > MAX_TOTAL_UPLOAD_SIZE
             THEN [files |-> next, error |-> OrMessage(errorMessage, "totalSizeExceeded")]
             ELSE AddFiles(Append(next, file), Tail(rest), errorMessage)

\* the updater without the limit on the number of files
DropUpdaterUnsliced(prev, acceptedFiles) == AddFiles(prev, acceptedFiles, "")

\* the function onDrop passes to setFiles, with the errorMessage it leaves
DropUpdater(prev, acceptedFiles) ==
    LET availableSlots == MAX_FILE_COUNT - Len(prev)
    IN  IF availableSlots <= 0
        THEN [files |-> prev, error |-> "tooManyFiles"]
        ELSE AddFiles(prev,
                      SubSeq(acceptedFiles, 1,
                             IF Len(acceptedFiles) > availableSlots
                             THEN availableSlots ELSE Len(acceptedFiles)),
                      IF Len(acceptedFiles) > availableSlots THEN "tooManyFiles" ELSE "")

UiInit ==
    /\ uiFiles = <<>>
    /\ isConverting = FALSE
    /\ uiError = ""
    /\ processingStatus = ""
    /\ uiPc = "idle"
    /\ timers = 0
    /\ FitIdle /\ IdsIdle /\ PostIdle /\ SanIdle /\ StepIdle /\ EmfIdle /\ CfgIdle /\ NameIdle

otherVars == <<fitVars, idsVars, postVars, sanVars, stepVars, emfVars, cfgVars, nameVars>>

\* onDrop.  React runs the updater at once when no update of the component is
\* pending and during the next render otherwise: in the second case
\* errorMessage and addedFiles are still empty when onDrop tests them.
OnDrop ==
    \E acceptedFiles \in SeqsUpTo(DroppableFiles, MaxDrop), eager \in BOOLEAN :
        LET updated == DropUpdater(uiFiles, acceptedFiles)
        IN  /\ uiFiles' = updated.files
            /\ processingStatus' = ""
            /\ uiError' = IF eager /\ updated.error # "" THEN updated.error
                          ELSE IF eager /\ Len(updated.files) > Len(uiFiles) THEN ""
                          ELSE uiError
            /\ UNCHANGED <<isConverting, uiPc, timers, otherVars>>

RemoveFile ==
    \E at \in 1..Len(uiFiles) :
        /\ uiFiles' = SubSeq(uiFiles, 1, at - 1) \o SubSeq(uiFiles, at + 1, Len(uiFiles))
        /\ UNCHANGED <<isConverting, uiError, processingStatus, uiPc, timers, otherVars>>

\* the button is rendered while files.length > 0
ClearFiles ==
    /\ uiFiles # <<>>
    /\ uiFiles' = <<>>
    /\ uiError' = ""
    /\ processingStatus' = ""
    /\ UNCHANGED <<isConverting, uiPc, timers, otherVars>>

hasComplexSvg(items) ==
    \E i \in 1..Len(items) : items[i].ext \in {"svg", "SVG"} /\ items[i].size > ComplexSvgSize

\* convertToPptx up to await fetch(...); the button is disabled while
\* files.length === 0 || isConverting
ConvertToPptx ==
    /\ uiFiles # <<>>
    /\ ~isConverting
    /\ IF Len(uiFiles) > MAX_FILE_COUNT
       THEN uiError' = "tooManyFiles" /\ processingStatus' = ""
            /\ UNCHANGED <<isConverting, uiPc>>
       ELSE IF \E i \in 1..Len(uiFiles) : uiFiles[i].size > MAX_SINGLE_FILE_SIZE
       THEN uiError' = "fileTooLarge" /\ processingStatus' = ""
            /\ UNCHANGED <<isConverting, uiPc>>
       ELSE IF getTotalUploadSize(uiFiles) > MAX_TOTAL_UPLOAD_SIZE
       THEN uiError' = "totalSizeExceeded" /\ processingStatus' = ""
            /\ UNCHANGED <<isConverting, uiPc>>
       ELSE /\ isConverting' = TRUE
            /\ uiError' = ""
            /\ processingStatus' = IF hasComplexSvg(uiFiles) THEN "processingComplex"
                                   ELSE "processingFiles"
            /\ uiPc' = "fetch"
    /\ UNCHANGED <<uiFiles, timers, otherVars>>

\* fetch resolved with response.ok: up to await response.blob()
FetchOk ==
    /\ uiPc = "fetch"
    /\ processingStatus' = "finalizing"
    /\ uiPc' = "blob"
    /\ UNCHANGED <<uiFiles, isConverting, uiError, timers, otherVars>>

\* fetch resolved with !response.ok: up to await response.json()
FetchNotOk ==
    /\ uiPc = "fetch"
    /\ uiPc' = "json"
    /\ UNCHANGED <<uiFiles, isConverting, uiError, processingStatus, timers, otherVars>>

\* a rejected await, or the throw after response.json(): catch and finally
ConversionFailed ==
    /\ uiPc \in {"fetch", "json", "blob"}
    /\ uiError' = "failed"
    /\ processingStatus' = ""
    /\ isConverting' = FALSE
    /\ uiPc' = "idle"
    /\ UNCHANGED <<uiFiles, timers, otherVars>>

\* response.blob() resolved: the download, the completed status, the timer, finally
ConversionCompleted ==
    /\ uiPc = "blob"
    /\ timers < MaxTimers
    /\ processingStatus' = "completed"
    /\ timers' = timers + 1
    /\ isConverting' = FALSE
    /\ uiPc' = "idle"
    /\ UNCHANGED <<uiFiles, uiError, otherVars>>

\* the callback of setTimeout(() => setProcessingStatus(''), 2000)
TimerFires ==
    /\ timers > 0
    /\ timers' = timers - 1
    /\ processingStatus' = ""
    /\ UNCHANGED <<uiFiles, isConverting, uiError, uiPc, otherVars>>

UiNext ==
    \/ OnDrop
    \/ RemoveFile
    \/ ClearFiles
    \/ ConvertToPptx
    \/ FetchOk
    \/ FetchNotOk
    \/ ConversionFailed
    \/ ConversionCompleted
    \/ TimerFires

SpecUi == UiInit /\ [][UiNext]_vars

WithinLimits(items) ==
    /\ Len(items) <= MAX_FILE_COUNT
    /\ \A i \in 1..Len(items) : items[i].size <= MAX_SINGLE_FILE_SIZE
    /\ getTotalUploadSize(items) <= MAX_TOTAL_UPLOAD_SIZE

\* C29: after every step of the page the file list holds at most 10 files, each
\* of at most 2 MB, of at most 4 MB together; a step that does not shorten the
\* list leaves the files already listed as they were, in their places.
C29_ListWithinLimits ==
    [][/\ WithinLimits(uiFiles')
       /\ Len(uiFiles') >= Len(uiFiles) => SubSeq(uiFiles', 1, Len(uiFiles)) = uiFiles]_vars

C29_Witness ==
    /\ Len(uiFiles) = MAX_FILE_COUNT
    /\ uiError = "tooManyFiles"

\* C30: while a conversion is in progress the status message is not empty.
C30_StatusWhileConverting == isConverting => processingStatus # ""

====
